---------------------------- MODULE Spec2Model ----------------------------
(***************************************************************************)
(* MemoriQ: the background embedding and recall-script pipelines that run  *)
(* after a note is created, updated or deleted, over the notes, images,    *)
(* note_embeddings and image_embeddings tables.                            *)
(*                                                                         *)
(* JavaScript runs one task at a time: an action of this model is one      *)
(* run-to-suspension segment of a handler, i.e. the code between two real  *)
(* suspension points (a store statement, a digest, an inference call, a    *)
(* timer).  Awaits on already settled promises are part of the segment.    *)
(* Strings are sequences of character codes.                               *)
(***************************************************************************)
EXTENDS Integers, Sequences, FiniteSets, TLC

(***************************************************************************)
(* Bounds of the model.                                                    *)
(***************************************************************************)
MaxNotes == 1      \* createNote calls
MaxUpdates == 1    \* updateNote calls
MaxDeletes == 1    \* deleteNote calls
MaxFaults == 1     \* store errors and capability failures injected
MaxEdits == 2      \* updateNote calls on a settled note
BurstUpdates == 3  \* updateNote calls of a burst of saves
FanOutFaults == 1  \* failures injected while a note with images is embedded

(***************************************************************************)
(* Text values.                                                            *)
(***************************************************************************)
NL == 10
SP == 32
TAB == 9
CR == 13
Whitespace == {SP, NL, TAB, CR}

\* "Tags: "
TagsPrefix == <<84, 97, 103, 115, 58, SP>>
\* ", "
TagSeparator == <<44, SP>>
\* "\n\n"
Blank == <<NL, NL>>

RECURSIVE Join(_)
\* tags.join(', ')
Join(tags) ==
  IF tags = <<>> THEN <<>>
  ELSE IF Len(tags) = 1 THEN Head(tags)
  ELSE Head(tags) \o TagSeparator \o Join(Tail(tags))

combineNoteText(title, content, tags) ==
  LET tagString == IF Len(tags) > 0 THEN TagsPrefix \o Join(tags) \o Blank ELSE <<>>
  IN  tagString \o title \o Blank \o content

RECURSIVE TrimStart(_)
TrimStart(s) ==
  IF s # <<>> /\ Head(s) \in Whitespace THEN TrimStart(Tail(s)) ELSE s

RECURSIVE TrimEnd(_)
TrimEnd(s) ==
  IF s # <<>> /\ s[Len(s)] \in Whitespace THEN TrimEnd(SubSeq(s, 1, Len(s) - 1)) ELSE s

\* String.prototype.trim
Trim(s) == TrimEnd(TrimStart(s))

(***************************************************************************)
(* The digest of a text.  The code takes SHA-256 and only ever compares    *)
(* digests for equality; the model keeps a digest that is a function of    *)
(* every character and its position, of fixed width.                       *)
(***************************************************************************)
HashModulus == 1000003
HashBase == 257

RECURSIVE HashFrom(_, _)
HashFrom(h, s) ==
  IF s = <<>> THEN h
  ELSE HashFrom((h * HashBase + Head(s) + 1) % HashModulus, Tail(s))

hashText(text) == HashFrom(7, text)

(***************************************************************************)
(* The embedding capability: a vector that is a function of the text.      *)
(* embeddingToBlob lays each element out in 4 bytes.                       *)
(***************************************************************************)
RECURSIVE SumCodes(_)
SumCodes(s) == IF s = <<>> THEN 0 ELSE Head(s) + SumCodes(Tail(s))

EmbeddingOf(text) == <<Len(text), SumCodes(text) % 256>>

BytesOf(x) == <<x % 256, (x \div 256) % 256, (x \div 65536) % 256, (x \div 16777216) % 256>>

RECURSIVE embeddingToBlob(_)
embeddingToBlob(embedding) ==
  IF embedding = <<>> THEN <<>>
  ELSE BytesOf(Head(embedding)) \o embeddingToBlob(Tail(embedding))

\* The completion capability: the script generated for a note, trimmed.
ScriptOf(title, content) == Trim(<<SP, 89, 111, 117, SP>> \o title \o <<SP>> \o content \o <<NL>>)

(***************************************************************************)
(* The inputs of createNote and updateNote.                                *)
(***************************************************************************)
InputPlain == [title |-> <<65>>, content |-> <<120>>, tags |-> <<>>, images |-> <<>>]
InputTagged == [title |-> <<65>>, content |-> <<121>>, tags |-> << <<116>> >>,
                images |-> <<>>]
InputImages == [title |-> <<65>>, content |-> <<120>>, tags |-> <<>>,
                images |-> << <<99>>, <<SP, 100>>, <<SP>> >>]
TextInputs == {InputPlain, InputTagged}


(***************************************************************************)
(* State.                                                                  *)
(***************************************************************************)
VARIABLES
  notes,               \* table notes: id -> [title, content, tags, recallScript]
  images,              \* table images: id -> [noteId, description]
  note_embeddings,     \* table note_embeddings, one row per noteId (UNIQUE)
  image_embeddings,    \* table image_embeddings, one row per imageId (UNIQUE)
  nextNoteId,          \* AUTOINCREMENT of notes
  nextImageId,         \* AUTOINCREMENT of images
  foreignKeys,         \* whether the SQLite build enforces FOREIGN KEY clauses
  embeddingLoaded,     \* ModelManager.embeddingLoaded
  recallLoaded,        \* ModelManager.recallLoaded
  pendingNotes,        \* createNoteEmbeddings: pendingNotes
  updateTimer,         \* createNoteEmbeddings: updateTimer is set
  pendingScriptNotes,  \* recallScriptGenerator: pendingScriptNotes
  scriptUpdateTimer,   \* recallScriptGenerator: scriptUpdateTimer is set
  timers,              \* the armed timers, in the order they fire (all have delay 300)
  embPasses,           \* the embedding passes in flight
  scriptPasses,        \* the recall-script passes in flight
  budget,              \* the calls and injected failures the environment has left
  saves,               \* history: committed createNote/updateNote calls, numbered 1..
  pendingCover,        \* history: the saves waiting in pendingNotes, per note
  pendingScriptCover,  \* history: the saves waiting in pendingScriptNotes, per note
  lateSaves,           \* history: saves scheduled while a drained batch was in flight
  drained,             \* history: the saves the embedding timer has drained
  failedTasks,         \* history: the passes and tasks in which something failed
  lastReturn,          \* history: how the last generateNoteTextEmbedding returned
  lastFailed,          \* history: per note, the digest whose embedding attempt failed
  lastCall,            \* history: the last createNote/updateNote/deleteNote and its result
  unhandled,           \* history: a rejection no handler took
  blobKind,            \* the JavaScript type in which the store driver hands out a BLOB
  request,             \* the call of a foreground function in progress, with its arguments
  outcome,             \* what that call has computed, and how it ended
  app                  \* AppProvider: its state, and how far its setup has come

tables == <<notes, images, note_embeddings, image_embeddings, nextNoteId, nextImageId>>
models == <<foreignKeys, embeddingLoaded, recallLoaded>>
foreground == <<blobKind, request, outcome, app>>
embeddingQueue == <<pendingNotes, updateTimer, pendingCover, drained>>
scriptQueue == <<pendingScriptNotes, scriptUpdateTimer, pendingScriptCover>>
vars == <<notes, images, note_embeddings, image_embeddings, nextNoteId, nextImageId,
          foreignKeys, embeddingLoaded, recallLoaded, pendingNotes, updateTimer,
          pendingScriptNotes, scriptUpdateTimer, timers, embPasses, scriptPasses,
          budget, saves, pendingCover, pendingScriptCover,
          lateSaves, drained, failedTasks, lastReturn, lastFailed, lastCall,
          unhandled, blobKind, request, outcome, app>>

NoteIds == 1..(MaxNotes + 1)

\* a BLOB column read back: a Uint8Array, an ArrayBuffer, an object with
\* buffer/byteOffset/byteLength, or a value of another type
BlobKinds == {"Uint8Array", "ArrayBuffer", "View", "Other"}
NoCall == [op |-> "none"]
NoResult == [pc |-> "none"]
NoError == "null"

\* the state of the application once its setup has succeeded
AppRunning ==
  [dbReady |-> TRUE, modelsReady |-> TRUE, downloadProgress |-> 100, error |-> NoError,
   mounted |-> TRUE, pc |-> "done", dbInstance |-> "migrated", ragLoaded |-> TRUE]

\* no foreground call is made; the pipelines never read a BLOB back
NoForeground ==
  blobKind = "Uint8Array" /\ request = NoCall /\ outcome = NoResult /\ app = AppRunning
NoHash == -1
NoScript == <<>>

(***************************************************************************)
(* Helpers on tables and sequences.                                        *)
(***************************************************************************)
Without(f, S) == [x \in DOMAIN f \ S |-> f[x]]
ReplaceAt(s, i, x) == [s EXCEPT ![i] = x]
RemoveAt(s, i) == SubSeq(s, 1, i - 1) \o SubSeq(s, i + 1, Len(s))

RECURSIVE SetToSeq(_)
\* the elements of a finite set of numbers, ascending
SetToSeq(S) ==
  IF S = {} THEN <<>>
  ELSE LET m == CHOOSE x \in S : \A y \in S : x <= y
       IN  <<m>> \o SetToSeq(S \ {m})

\* images of a note, ascending by id (SELECT ... FROM images WHERE noteId = ?)
getImagesForNote(n) == SetToSeq({i \in DOMAIN images : images[i].noteId = n})

\* the failures a step may draw: none, or one while the budget lasts
FaultChoices == IF budget.faults > 0 THEN {FALSE, TRUE} ELSE {FALSE}
Spend(fail) == budget' = [budget EXCEPT !.faults = @ - (IF fail THEN 1 ELSE 0)]
SpendOn(call, fail) ==
  budget' = [budget EXCEPT ![call] = @ - 1, !.faults = @ - (IF fail THEN 1 ELSE 0)]

(***************************************************************************)
(* try/catch structure: the functions whose body is inside a try block     *)
(* that absorbs the error, and Promise.allSettled, which never rejects.    *)
(* An error thrown under a stack of callers escapes when none absorbs it.  *)
(***************************************************************************)
\* the timer callbacks without their try blocks
AbsorbsInPassesOnly ==
  {"generateNoteTextEmbedding", "generateImageEmbedding", "allSettled",
   "processNoteEmbeddings", "generateRecallScript", "processRecallScript"}

Absorbs ==
  {"generateNoteTextEmbedding", "generateImageEmbedding", "allSettled",
   "processNoteEmbeddings", "embeddingTimer",
   "generateRecallScript", "processRecallScript", "scriptTimer"}

Escapes(stack) == stack \cap Absorbs = {}

(***************************************************************************)
(* Initial state: the app gate has opened; ModelManager.initialize loaded  *)
(* the models in order (rag, embedding, recall) and stopped at the first   *)
(* failure.  No notes yet.  The specifications below add the budget and    *)
(* the foreground call.                                                    *)
(***************************************************************************)
Init ==
  /\ notes = <<>>
  /\ images = <<>>
  /\ note_embeddings = <<>>
  /\ image_embeddings = <<>>
  /\ nextNoteId = 1
  /\ nextImageId = 1
  /\ foreignKeys \in BOOLEAN
  /\ embeddingLoaded \in BOOLEAN
  /\ recallLoaded \in BOOLEAN
  /\ recallLoaded => embeddingLoaded
  /\ pendingNotes = {}
  /\ updateTimer = FALSE
  /\ pendingScriptNotes = {}
  /\ scriptUpdateTimer = FALSE
  /\ timers = <<>>
  /\ embPasses = <<>>
  /\ scriptPasses = <<>>
  /\ saves = 0
  /\ pendingCover = [n \in NoteIds |-> {}]
  /\ pendingScriptCover = [n \in NoteIds |-> {}]
  /\ lateSaves = {}
  /\ drained = {}
  /\ failedTasks = {}
  /\ lastReturn = "none"
  /\ lastFailed = [n \in NoteIds |-> NoHash]
  /\ lastCall = [op |-> "none", result |-> "none"]
  /\ unhandled = FALSE

(***************************************************************************)
(* Passes and their tasks.                                                 *)
(***************************************************************************)
IdleText == [pc |-> "idle", text |-> <<>>, existing |-> FALSE]

\* generateImageEmbedding testing the caption as typed, spaces included
ImageTaskUntrimmed(i) ==
  LET description == images[i].description
  IN  IF description = <<>>
      THEN [image |-> i, pc |-> "done", description |-> <<>>, existing |-> FALSE]
      ELSE [image |-> i, pc |-> "select", description |-> Trim(description),
            existing |-> FALSE]

\* generateImageEmbedding up to its first suspension: an empty caption returns
ImageTask(i) ==
  LET description == images[i].description
  IN  IF Trim(description) = <<>>
      THEN [image |-> i, pc |-> "done", description |-> <<>>, existing |-> FALSE]
      ELSE [image |-> i, pc |-> "select", description |-> Trim(description),
            existing |-> FALSE]

EmbPass(n, origin, pc, cover) ==
  [note |-> n, origin |-> origin, pc |-> pc, covers |-> cover,
   text |-> IdleText, imgs |-> <<>>]

ScriptPass(n, origin, pc, cover) ==
  [note |-> n, origin |-> origin, pc |-> pc, covers |-> cover,
   title |-> <<>>, content |-> <<>>]

\* processRecallScript(noteId): ensureRecallModelReady, then generateRecallScript
\* up to its first suspension (getNoteById)
processRecallScript(passes, n, origin, cover) ==
  IF recallLoaded THEN Append(passes, ScriptPass(n, origin, "getNote", cover))
  ELSE passes

AllSettled(p) == p.text.pc = "done" /\ \A k \in DOMAIN p.imgs : p.imgs[k].pc = "done"

\* The passes after pass i took a step to p: when every task has settled,
\* processNoteEmbeddings resolves, and createNote's then-callback starts the
\* recall script.
EmbAfter(i, p) ==
  IF p.pc = "done" \/ (p.pc = "tasks" /\ AllSettled(p))
  THEN [emb |-> RemoveAt(embPasses, i),
        scr |-> IF p.origin = "create"
                THEN processRecallScript(scriptPasses, p.note, "create", p.covers)
                ELSE scriptPasses]
  ELSE [emb |-> ReplaceAt(embPasses, i, p), scr |-> scriptPasses]

EmbStep(i, p) ==
  /\ embPasses' = EmbAfter(i, p).emb
  /\ scriptPasses' = EmbAfter(i, p).scr


(***************************************************************************)
(* The debounced schedulers.                                               *)
(***************************************************************************)
\* the scheduler without its test of updateTimer: every call arms a timer
updateNoteEmbeddingsRearm(n, queue) ==
  /\ pendingNotes' = pendingNotes \cup {n}
  /\ updateTimer' = TRUE
  /\ pendingCover' = [pendingCover EXCEPT ![n] = @ \cup {saves + 1}]
  /\ drained' = drained
  /\ lateSaves' = IF \E i \in DOMAIN embPasses :
                       embPasses[i].origin = "update" /\ embPasses[i].note = n
                  THEN lateSaves \cup {saves + 1} ELSE lateSaves
  /\ queue = Append(timers, "embedding")

\* updateNoteEmbeddings(noteId): add to the pending set, arm the timer if none
updateNoteEmbeddings(n, queue) ==
  /\ pendingNotes' = pendingNotes \cup {n}
  /\ updateTimer' = TRUE
  /\ pendingCover' = [pendingCover EXCEPT ![n] = @ \cup {saves + 1}]
  /\ drained' = drained
  /\ lateSaves' = IF \E i \in DOMAIN embPasses :
                       embPasses[i].origin = "update" /\ embPasses[i].note = n
                  THEN lateSaves \cup {saves + 1} ELSE lateSaves
  /\ IF updateTimer THEN queue = timers ELSE queue = Append(timers, "embedding")

\* the scheduler clearing an armed timer and arming a fresh one in its place
updateRecallScriptRestart(n, queue) ==
  /\ pendingScriptNotes' = pendingScriptNotes \cup {n}
  /\ scriptUpdateTimer' = TRUE
  /\ pendingScriptCover' = [pendingScriptCover EXCEPT ![n] = @ \cup {saves + 1}]
  /\ timers' = Append(SelectSeq(queue, LAMBDA kind : kind # "script"), "script")

\* updateRecallScript(noteId), called from the then-callback of updateNote
updateRecallScript(n, queue) ==
  /\ pendingScriptNotes' = pendingScriptNotes \cup {n}
  /\ scriptUpdateTimer' = TRUE
  /\ pendingScriptCover' = [pendingScriptCover EXCEPT ![n] = @ \cup {saves + 1}]
  /\ IF scriptUpdateTimer THEN timers' = queue ELSE timers' = Append(queue, "script")

(***************************************************************************)
(* The note operations.                                                    *)
(***************************************************************************)
\* the rows of input.images, numbered from nextImageId
NewImages(n, input) ==
  [i \in nextImageId..(nextImageId + Len(input.images) - 1) |->
     [noteId |-> n, description |-> input.images[i - nextImageId + 1]]]

\* a createNote that starts the pass without waiting for its transaction
CreateNoteEager(input) ==
  /\ budget.creates > 0
  /\ \E fail \in FaultChoices :
       /\ SpendOn("creates", fail)
       /\ IF fail
          THEN /\ lastCall' = [op |-> "createNote", result |-> "rejected"]
               /\ embPasses' = Append(embPasses,
                                      EmbPass(nextNoteId, "create", "getNote", {saves + 1}))
               /\ UNCHANGED <<tables, scriptPasses, saves>>
          ELSE LET n == nextNoteId
                   row == [title |-> input.title, content |-> input.content,
                           tags |-> input.tags, recallScript |-> NoScript]
               IN  /\ notes' = notes @@ (n :> row)
                   /\ images' = images @@ NewImages(n, input)
                   /\ nextNoteId' = n + 1
                   /\ nextImageId' = nextImageId + Len(input.images)
                   /\ saves' = saves + 1
                   /\ IF embeddingLoaded
                      THEN /\ embPasses' = Append(embPasses,
                                             EmbPass(n, "create", "getNote", {saves + 1}))
                           /\ scriptPasses' = scriptPasses
                      ELSE /\ embPasses' = embPasses
                           /\ scriptPasses' =
                                processRecallScript(scriptPasses, n, "create", {saves + 1})
                   /\ lastCall' = [op |-> "createNote", result |-> "fulfilled"]
                   /\ UNCHANGED <<note_embeddings, image_embeddings>>
  /\ UNCHANGED <<models, foreground, embeddingQueue, scriptQueue, timers, lateSaves,
                 failedTasks, lastReturn, lastFailed, unhandled>>

\* createNote(input): the transaction, then processNoteEmbeddings(noteId) up to
\* its first suspension; a transaction that fails rejects and starts nothing.
CreateNote(input) ==
  /\ budget.creates > 0
  /\ \E fail \in FaultChoices :
       /\ SpendOn("creates", fail)
       /\ IF fail
          THEN /\ lastCall' = [op |-> "createNote", result |-> "rejected"]
               /\ UNCHANGED <<tables, embPasses, scriptPasses, saves>>
          ELSE LET n == nextNoteId
                   row == [title |-> input.title, content |-> input.content,
                           tags |-> input.tags, recallScript |-> NoScript]
               IN  /\ notes' = notes @@ (n :> row)
                   /\ images' = images @@ NewImages(n, input)
                   /\ nextNoteId' = n + 1
                   /\ nextImageId' = nextImageId + Len(input.images)
                   /\ saves' = saves + 1
                   /\ IF embeddingLoaded
                      THEN /\ embPasses' = Append(embPasses,
                                             EmbPass(n, "create", "getNote", {saves + 1}))
                           /\ scriptPasses' = scriptPasses
                      ELSE /\ embPasses' = embPasses
                           /\ scriptPasses' =
                                processRecallScript(scriptPasses, n, "create", {saves + 1})
                   /\ lastCall' = [op |-> "createNote", result |-> "fulfilled"]
                   /\ UNCHANGED <<note_embeddings, image_embeddings>>
  /\ UNCHANGED <<models, foreground, embeddingQueue, scriptQueue, timers, lateSaves,
                 failedTasks, lastReturn, lastFailed, unhandled>>

\* updateNote(input): the transaction replaces the fields, the tags and the
\* images, then both schedulers are called.
UpdateNote(n, input) ==
  /\ n \in DOMAIN notes
  /\ budget.updates > 0
  /\ \E fail \in FaultChoices :
       /\ SpendOn("updates", fail)
       /\ IF fail
          THEN /\ lastCall' = [op |-> "updateNote", result |-> "rejected"]
               /\ UNCHANGED <<tables, embeddingQueue, scriptQueue, timers, saves,
                              lateSaves, lastFailed>>
          ELSE LET old == {i \in DOMAIN images : images[i].noteId = n}
               IN  /\ notes' = [notes EXCEPT ![n].title = input.title,
                                             ![n].content = input.content,
                                             ![n].tags = input.tags]
                   /\ images' = Without(images, old) @@ NewImages(n, input)
                   /\ nextImageId' = nextImageId + Len(input.images)
                   /\ image_embeddings' = IF foreignKeys
                                          THEN Without(image_embeddings, old)
                                          ELSE image_embeddings
                   /\ saves' = saves + 1
                   /\ \E queue \in {timers, Append(timers, "embedding")} :
                        /\ updateNoteEmbeddings(n, queue)
                        /\ updateRecallScript(n, queue)
                   /\ lastFailed' =
                        IF lastFailed[n] #
                             hashText(combineNoteText(input.title, input.content, input.tags))
                        THEN [lastFailed EXCEPT ![n] = NoHash] ELSE lastFailed
                   /\ lastCall' = [op |-> "updateNote", result |-> "fulfilled"]
                   /\ UNCHANGED <<note_embeddings, nextNoteId>>
  /\ UNCHANGED <<models, foreground, embPasses, scriptPasses, failedTasks, lastReturn, unhandled>>

\* deleteNote(id): DELETE FROM notes; the other tables follow when the build
\* enforces ON DELETE CASCADE.
DeleteNote(n) ==
  /\ n \in DOMAIN notes
  /\ budget.deletes > 0
  /\ \E fail \in FaultChoices :
       /\ SpendOn("deletes", fail)
       /\ IF fail
          THEN /\ lastCall' = [op |-> "deleteNote", result |-> "rejected"]
               /\ UNCHANGED tables
          ELSE LET own == {i \in DOMAIN images : images[i].noteId = n}
               IN  /\ notes' = Without(notes, {n})
                   /\ images' = IF foreignKeys THEN Without(images, own) ELSE images
                   /\ note_embeddings' = IF foreignKeys
                                         THEN Without(note_embeddings, {n})
                                         ELSE note_embeddings
                   /\ image_embeddings' = IF foreignKeys
                                          THEN Without(image_embeddings, own)
                                          ELSE image_embeddings
                   /\ lastCall' = [op |-> "deleteNote", result |-> "fulfilled"]
                   /\ UNCHANGED <<nextNoteId, nextImageId>>
  /\ UNCHANGED <<models, foreground, embeddingQueue, scriptQueue, timers, embPasses, scriptPasses,
                 saves, lateSaves, failedTasks, lastReturn, lastFailed, unhandled>>

(***************************************************************************)
(* The timer callbacks.                                                    *)
(***************************************************************************)
\* the passes started for the drained ids, in the order of the ids
RECURSIVE EmbBatch(_, _)
EmbBatch(ids, cover) ==
  IF ids = <<>> THEN <<>>
  ELSE <<EmbPass(Head(ids), "update", "batchGetNote", cover[Head(ids)])>>
         \o EmbBatch(Tail(ids), cover)

RECURSIVE ScriptBatch(_, _)
ScriptBatch(ids, cover) ==
  IF ids = <<>> THEN <<>>
  ELSE <<ScriptPass(Head(ids), "update", "batchGetNote", cover[Head(ids)])>>
         \o ScriptBatch(Tail(ids), cover)

\* the callback without its updateTimer = null
EmbeddingTimerStaysArmed ==
  /\ timers # <<>> /\ Head(timers) = "embedding"
  /\ timers' = Tail(timers)
  /\ pendingNotes' = {}
  /\ updateTimer' = updateTimer
  /\ pendingCover' = [n \in NoteIds |-> {}]
  /\ drained' = drained \cup UNION {pendingCover[n] : n \in pendingNotes}
  /\ embPasses' = IF embeddingLoaded
                  THEN embPasses \o EmbBatch(SetToSeq(pendingNotes), pendingCover)
                  ELSE embPasses
  /\ UNCHANGED <<tables, models, foreground, scriptQueue, scriptPasses, budget, saves,
                 lateSaves, failedTasks, lastReturn, lastFailed, lastCall, unhandled>>

\* the callback of updateNoteEmbeddings without its ensureModelsReady() test
EmbeddingTimerUnready ==
  /\ timers # <<>> /\ Head(timers) = "embedding"
  /\ timers' = Tail(timers)
  /\ pendingNotes' = {}
  /\ updateTimer' = FALSE
  /\ pendingCover' = [n \in NoteIds |-> {}]
  /\ drained' = drained \cup UNION {pendingCover[n] : n \in pendingNotes}
  /\ embPasses' = embPasses \o EmbBatch(SetToSeq(pendingNotes), pendingCover)
  /\ UNCHANGED <<tables, models, foreground, scriptQueue, scriptPasses, budget, saves,
                 lateSaves, failedTasks, lastReturn, lastFailed, lastCall, unhandled>>

\* the callback of updateNoteEmbeddings: drain, disarm, then one getNoteById per id
EmbeddingTimer ==
  /\ timers # <<>> /\ Head(timers) = "embedding"
  /\ timers' = Tail(timers)
  /\ pendingNotes' = {}
  /\ updateTimer' = FALSE
  /\ pendingCover' = [n \in NoteIds |-> {}]
  /\ drained' = drained \cup UNION {pendingCover[n] : n \in pendingNotes}
  /\ embPasses' = IF embeddingLoaded
                  THEN embPasses \o EmbBatch(SetToSeq(pendingNotes), pendingCover)
                  ELSE embPasses
  /\ UNCHANGED <<tables, models, foreground, scriptQueue, scriptPasses, budget, saves,
                 lateSaves, failedTasks, lastReturn, lastFailed, lastCall, unhandled>>

\* the callback of updateRecallScript taking one pending id at a firing
ScriptTimerOneId ==
  /\ timers # <<>> /\ Head(timers) = "script"
  /\ LET n == CHOOSE m \in pendingScriptNotes : TRUE
         left == pendingScriptNotes \ {n}
     IN  /\ timers' = IF left = {} THEN Tail(timers) ELSE Append(Tail(timers), "script")
         /\ pendingScriptNotes' = left
         /\ scriptUpdateTimer' = (left # {})
         /\ pendingScriptCover' = [pendingScriptCover EXCEPT ![n] = {}]
         /\ scriptPasses' = IF recallLoaded
                            THEN scriptPasses \o ScriptBatch(<<n>>, pendingScriptCover)
                            ELSE scriptPasses
  /\ UNCHANGED <<tables, models, foreground, embeddingQueue, embPasses, budget, saves,
                 lateSaves, failedTasks, lastReturn, lastFailed, lastCall, unhandled>>

\* the callback of updateRecallScript
ScriptTimer ==
  /\ timers # <<>> /\ Head(timers) = "script"
  /\ timers' = Tail(timers)
  /\ pendingScriptNotes' = {}
  /\ scriptUpdateTimer' = FALSE
  /\ pendingScriptCover' = [n \in NoteIds |-> {}]
  /\ scriptPasses' = IF recallLoaded
                     THEN scriptPasses \o ScriptBatch(SetToSeq(pendingScriptNotes),
                                                      pendingScriptCover)
                     ELSE scriptPasses
  /\ UNCHANGED <<tables, models, foreground, embeddingQueue, embPasses, budget, saves,
                 lateSaves, failedTasks, lastReturn, lastFailed, lastCall, unhandled>>


(***************************************************************************)
(* An embedding pass: processNoteEmbeddings and its tasks.                 *)
(***************************************************************************)
passFrame == <<notes, images, nextNoteId, nextImageId, models, embeddingQueue,
               scriptQueue, timers, saves, lateSaves, lastCall, foreground>>

\* history: something failed in the pass or task named by key
Fails(key, failed) ==
  failedTasks' = IF failed THEN failedTasks \cup {key} ELSE failedTasks

\* the timer callback going on to processNoteEmbeddings(id) whether or not
\* getNoteById(id) found the note
EmbBatchLoadedUnchecked(i) ==
  /\ i \in DOMAIN embPasses
  /\ embPasses[i].pc = "batchGetNote"
  /\ \E fail \in FaultChoices :
       /\ Spend(fail)
       /\ Fails(<<"pass", embPasses[i].note>>, fail)
       /\ unhandled' = (unhandled \/ (fail /\ Escapes({"embeddingTimer"})))
       /\ IF fail \/ ~embeddingLoaded
          THEN embPasses' = RemoveAt(embPasses, i)
          ELSE embPasses' = ReplaceAt(embPasses, i, [embPasses[i] EXCEPT !.pc = "getNote"])
  /\ UNCHANGED <<passFrame, scriptPasses, note_embeddings, image_embeddings,
                 lastReturn, lastFailed>>

\* the timer callback's getNoteById(id) returns; processNoteEmbeddings(id) runs
\* up to its own getNoteById
EmbBatchLoaded(i) ==
  /\ i \in DOMAIN embPasses
  /\ embPasses[i].pc = "batchGetNote"
  /\ \E fail \in FaultChoices :
       /\ Spend(fail)
       /\ Fails(<<"pass", embPasses[i].note>>, fail)
       /\ unhandled' = (unhandled \/ (fail /\ Escapes({"embeddingTimer"})))
       /\ IF fail \/ embPasses[i].note \notin DOMAIN notes \/ ~embeddingLoaded
          THEN embPasses' = RemoveAt(embPasses, i)
          ELSE embPasses' = ReplaceAt(embPasses, i, [embPasses[i] EXCEPT !.pc = "getNote"])
  /\ UNCHANGED <<passFrame, scriptPasses, note_embeddings, image_embeddings,
                 lastReturn, lastFailed>>

\* processNoteEmbeddings: getNoteById returns; the text task and one task per
\* image start, each running up to its first suspension
EmbNoteLoaded(i) ==
  /\ i \in DOMAIN embPasses
  /\ embPasses[i].pc = "getNote"
  /\ \E fail \in FaultChoices :
       /\ Spend(fail)
       /\ Fails(<<"pass", embPasses[i].note>>, fail)
       /\ unhandled' = (unhandled \/ (fail /\ Escapes({"processNoteEmbeddings"})))
       /\ LET p == embPasses[i]
              ids == getImagesForNote(p.note)
          IN  IF fail \/ p.note \notin DOMAIN notes
              THEN EmbStep(i, [p EXCEPT !.pc = "done"])
              ELSE EmbStep(i, [p EXCEPT !.pc = "tasks",
                                        !.text = [IdleText EXCEPT !.pc = "getNote"],
                                        !.imgs = [k \in DOMAIN ids |-> ImageTask(ids[k])]])
  /\ UNCHANGED <<passFrame, note_embeddings, image_embeddings, lastReturn, lastFailed>>

textStack == {"generateNoteTextEmbedding", "allSettled", "processNoteEmbeddings"}
imageStack == {"generateImageEmbedding", "allSettled", "processNoteEmbeddings"}

\* an error handler that makes the call again
TextRetried(task) == [task EXCEPT !.pc = "embedding"]

\* where an error thrown in generateNoteTextEmbedding's try block continues
TextOnError(task) == [task EXCEPT !.pc = "catch"]

\* generateNoteTextEmbedding: getNoteById returns, the text is combined and hashed
TextNoteLoaded(i) ==
  /\ i \in DOMAIN embPasses
  /\ embPasses[i].pc = "tasks"
  /\ embPasses[i].text.pc = "getNote"
  /\ \E fail \in FaultChoices :
       /\ Spend(fail)
       /\ Fails(<<"text", embPasses[i].note>>, fail)
       /\ unhandled' = (unhandled \/ (fail /\ Escapes(textStack)))
       /\ LET p == embPasses[i]
              t == p.text
          IN  IF fail
              THEN /\ EmbStep(i, [p EXCEPT !.text = TextOnError(t)])
                   /\ lastReturn' = lastReturn
              ELSE IF p.note \notin DOMAIN notes
              THEN /\ EmbStep(i, [p EXCEPT !.text.pc = "done"])
                   /\ lastReturn' = "missing"
              ELSE LET note == notes[p.note]
                   IN  /\ EmbStep(i, [p EXCEPT !.text.pc = "select",
                                               !.text.text = combineNoteText(
                                                  note.title, note.content, note.tags)])
                       /\ lastReturn' = lastReturn
  /\ UNCHANGED <<passFrame, note_embeddings, image_embeddings, lastFailed>>

\* the comparison of the fingerprints inverted
SameHashInverted(rows, key, field, text) ==
  key \in DOMAIN rows /\ rows[key][field] # hashText(text)

\* whether the stored fingerprint makes the regeneration unnecessary
SameHash(rows, key, field, text) ==
  key \in DOMAIN rows /\ rows[key][field] = hashText(text)

\* generateNoteTextEmbedding: the SELECT returns; same hash returns, otherwise
\* embeddingContext.embedding(combinedText) is called
TextSelected(i) ==
  /\ i \in DOMAIN embPasses
  /\ embPasses[i].pc = "tasks"
  /\ embPasses[i].text.pc = "select"
  /\ \E fail \in FaultChoices :
       /\ Spend(fail)
       /\ Fails(<<"text", embPasses[i].note>>,
                fail \/ (~embeddingLoaded /\ ~SameHash(note_embeddings, embPasses[i].note,
                                                       "textHash", embPasses[i].text.text)))
       /\ unhandled' = (unhandled \/ (fail /\ Escapes(textStack)))
       /\ LET p == embPasses[i]
              t == p.text
          IN  IF fail
              THEN /\ EmbStep(i, [p EXCEPT !.text = TextOnError(t)])
                   /\ lastReturn' = lastReturn
              ELSE IF SameHash(note_embeddings, p.note, "textHash", t.text)
              THEN /\ EmbStep(i, [p EXCEPT !.text.pc = "done"])
                   /\ lastReturn' = "unchanged"
              ELSE IF ~embeddingLoaded
              THEN /\ EmbStep(i, [p EXCEPT !.text = TextOnError(t)])
                   /\ lastReturn' = lastReturn
              ELSE /\ EmbStep(i, [p EXCEPT !.text.pc = "embedding",
                                           !.text.existing =
                                              p.note \in DOMAIN note_embeddings])
                   /\ lastReturn' = lastReturn
  /\ UNCHANGED <<passFrame, note_embeddings, image_embeddings, lastFailed>>

\* the results of an inference call: the value, nothing usable, or an exception
Results == IF budget.faults > 0 THEN {"ok", "empty", "throw"} ELSE {"ok"}

\* generateNoteTextEmbedding: embedding() returns; a vector is sent to the store
TextEmbedded(i) ==
  /\ i \in DOMAIN embPasses
  /\ embPasses[i].pc = "tasks"
  /\ embPasses[i].text.pc = "embedding"
  /\ \E result \in Results :
       /\ Spend(result # "ok")
       /\ Fails(<<"text", embPasses[i].note>>, result # "ok")
       /\ unhandled' = (unhandled \/ (result # "ok" /\ Escapes(textStack)))
       /\ LET p == embPasses[i]
              t == p.text
          IN  /\ IF result = "ok"
                 THEN EmbStep(i, [p EXCEPT !.text.pc = "write"])
                 ELSE EmbStep(i, [p EXCEPT !.text = TextOnError(t)])
              /\ lastFailed' = IF result = "ok" THEN lastFailed
                               ELSE [lastFailed EXCEPT ![p.note] = hashText(t.text)]
  /\ UNCHANGED <<passFrame, note_embeddings, image_embeddings, lastReturn>>

\* the row generateNoteTextEmbedding stores
TextRow(text) ==
  [embedding |-> embeddingToBlob(EmbeddingOf(text)),
   embeddingDimensions |-> Len(EmbeddingOf(text)),
   textHash |-> hashText(text),
   status |-> "completed"]

\* generateNoteTextEmbedding: the UPDATE or INSERT returns.  An INSERT fails on
\* a second row for the noteId, and on a missing note when foreign keys are on.
TextWritten(i) ==
  /\ i \in DOMAIN embPasses
  /\ embPasses[i].pc = "tasks"
  /\ embPasses[i].text.pc = "write"
  /\ \E fail \in FaultChoices :
       /\ Spend(fail)
       /\ LET p == embPasses[i]
              t == p.text
              n == p.note
              refused == \/ fail
                         \/ ~t.existing /\ n \in DOMAIN note_embeddings
                         \/ ~t.existing /\ foreignKeys /\ n \notin DOMAIN notes
          IN  /\ unhandled' = (unhandled \/ (refused /\ Escapes(textStack)))
              /\ Fails(<<"text", n>>, refused)
              /\ IF refused
                 THEN /\ EmbStep(i, [p EXCEPT !.text = TextOnError(t)])
                      /\ UNCHANGED <<note_embeddings, lastReturn>>
                 ELSE /\ EmbStep(i, [p EXCEPT !.text.pc = "done"])
                      /\ lastReturn' = "stored"
                      /\ note_embeddings' =
                           IF t.existing
                           THEN IF n \in DOMAIN note_embeddings
                                THEN [note_embeddings EXCEPT ![n] = TextRow(t.text)]
                                ELSE note_embeddings
                           ELSE note_embeddings @@ (n :> TextRow(t.text))
  /\ UNCHANGED <<passFrame, image_embeddings, lastFailed>>

\* the catch block's UPDATE without its WHERE clause
MarkAllFailed(rows, key) == [k \in DOMAIN rows |-> [rows[k] EXCEPT !.status = "failed"]]

\* an UPDATE that also clears the vector of the row
MarkFailedCleared(rows, key) ==
  IF key \in DOMAIN rows
  THEN [rows EXCEPT ![key].status = "failed", ![key].embedding = <<>>,
                    ![key].embeddingDimensions = 0]
  ELSE rows

\* what the catch block does to the table: UPDATE ... SET status = 'failed'
MarkFailed(rows, key) ==
  IF key \in DOMAIN rows THEN [rows EXCEPT ![key].status = "failed"] ELSE rows

\* generateNoteTextEmbedding: the catch block's UPDATE returns; its own error
\* is ignored
TextCatch(i) ==
  /\ i \in DOMAIN embPasses
  /\ embPasses[i].pc = "tasks"
  /\ embPasses[i].text.pc = "catch"
  /\ \E fail \in FaultChoices :
       /\ Spend(fail)
       /\ LET p == embPasses[i]
          IN  /\ EmbStep(i, [p EXCEPT !.text.pc = "done"])
              /\ note_embeddings' = IF fail THEN note_embeddings
                                    ELSE MarkFailed(note_embeddings, p.note)
  /\ lastReturn' = "failed"
  /\ UNCHANGED <<passFrame, image_embeddings, failedTasks, lastFailed, unhandled>>

(***************************************************************************)
(* generateImageEmbedding, one task per image of the note.                 *)
(***************************************************************************)
ImageOnError(task) == [task EXCEPT !.pc = "catch"]

imageFrame == <<passFrame, note_embeddings, lastReturn, lastFailed>>

\* the digest and the SELECT return; same hash returns, otherwise
\* embeddingContext.embedding(description) is called
ImageSelected(i, k) ==
  /\ i \in DOMAIN embPasses
  /\ embPasses[i].pc = "tasks"
  /\ k \in DOMAIN embPasses[i].imgs
  /\ embPasses[i].imgs[k].pc = "select"
  /\ \E fail \in FaultChoices :
       /\ Spend(fail)
       /\ Fails(<<"image", embPasses[i].imgs[k].image>>, fail \/ ~embeddingLoaded)
       /\ unhandled' = (unhandled \/ (fail /\ Escapes(imageStack)))
       /\ LET p == embPasses[i]
              t == p.imgs[k]
          IN  IF fail \/ ~embeddingLoaded
              THEN EmbStep(i, [p EXCEPT !.imgs[k] = ImageOnError(t)])
              ELSE IF SameHash(image_embeddings, t.image, "descriptionHash", t.description)
              THEN EmbStep(i, [p EXCEPT !.imgs[k].pc = "done"])
              ELSE EmbStep(i, [p EXCEPT !.imgs[k].pc = "embedding",
                                        !.imgs[k].existing =
                                           t.image \in DOMAIN image_embeddings])
  /\ UNCHANGED <<imageFrame, image_embeddings>>

\* embedding() returns
ImageEmbedded(i, k) ==
  /\ i \in DOMAIN embPasses
  /\ embPasses[i].pc = "tasks"
  /\ k \in DOMAIN embPasses[i].imgs
  /\ embPasses[i].imgs[k].pc = "embedding"
  /\ \E result \in Results :
       /\ Spend(result # "ok")
       /\ Fails(<<"image", embPasses[i].imgs[k].image>>, result # "ok")
       /\ unhandled' = (unhandled \/ (result # "ok" /\ Escapes(imageStack)))
       /\ LET p == embPasses[i]
              t == p.imgs[k]
          IN  IF result = "ok"
              THEN EmbStep(i, [p EXCEPT !.imgs[k].pc = "write"])
              ELSE EmbStep(i, [p EXCEPT !.imgs[k] = ImageOnError(t)])
  /\ UNCHANGED <<imageFrame, image_embeddings>>

\* the row generateImageEmbedding stores
ImageRow(description) ==
  [description |-> description,
   embedding |-> embeddingToBlob(EmbeddingOf(description)),
   embeddingDimensions |-> Len(EmbeddingOf(description)),
   descriptionHash |-> hashText(description),
   status |-> "completed"]

\* the UPDATE or INSERT returns
ImageWritten(i, k) ==
  /\ i \in DOMAIN embPasses
  /\ embPasses[i].pc = "tasks"
  /\ k \in DOMAIN embPasses[i].imgs
  /\ embPasses[i].imgs[k].pc = "write"
  /\ \E fail \in FaultChoices :
       /\ Spend(fail)
       /\ LET p == embPasses[i]
              t == p.imgs[k]
              refused == \/ fail
                         \/ ~t.existing /\ t.image \in DOMAIN image_embeddings
                         \/ ~t.existing /\ foreignKeys /\ t.image \notin DOMAIN images
          IN  /\ unhandled' = (unhandled \/ (refused /\ Escapes(imageStack)))
              /\ Fails(<<"image", t.image>>, refused)
              /\ IF refused
                 THEN /\ EmbStep(i, [p EXCEPT !.imgs[k] = ImageOnError(t)])
                      /\ UNCHANGED image_embeddings
                 ELSE /\ EmbStep(i, [p EXCEPT !.imgs[k].pc = "done"])
                      /\ image_embeddings' =
                           IF t.existing
                           THEN IF t.image \in DOMAIN image_embeddings
                                THEN [image_embeddings EXCEPT
                                        ![t.image] = ImageRow(t.description)]
                                ELSE image_embeddings
                           ELSE image_embeddings @@ (t.image :> ImageRow(t.description))
  /\ UNCHANGED imageFrame

\* the catch block's UPDATE returns
ImageCatch(i, k) ==
  /\ i \in DOMAIN embPasses
  /\ embPasses[i].pc = "tasks"
  /\ k \in DOMAIN embPasses[i].imgs
  /\ embPasses[i].imgs[k].pc = "catch"
  /\ \E fail \in FaultChoices :
       /\ Spend(fail)
       /\ LET p == embPasses[i]
          IN  /\ EmbStep(i, [p EXCEPT !.imgs[k].pc = "done"])
              /\ image_embeddings' = IF fail THEN image_embeddings
                                     ELSE MarkFailed(image_embeddings, p.imgs[k].image)
  /\ UNCHANGED <<imageFrame, failedTasks, unhandled>>

(***************************************************************************)
(* A recall-script pass: processRecallScript and generateRecallScript.     *)
(***************************************************************************)
scriptFrame == <<images, note_embeddings, image_embeddings, nextNoteId, nextImageId,
                 models, foreground, embeddingQueue, scriptQueue, timers, embPasses,
                 saves, lateSaves, failedTasks, lastReturn, lastCall, lastFailed>>

scriptStack == {"generateRecallScript", "processRecallScript"}

\* the timer callback's getNoteById(id) returns; processRecallScript(id) runs up
\* to generateRecallScript's getNoteById
ScriptBatchLoaded(i) ==
  /\ i \in DOMAIN scriptPasses
  /\ scriptPasses[i].pc = "batchGetNote"
  /\ \E fail \in FaultChoices :
       /\ Spend(fail)
       /\ unhandled' = (unhandled \/ (fail /\ Escapes({"scriptTimer"})))
       /\ IF fail \/ scriptPasses[i].note \notin DOMAIN notes \/ ~recallLoaded
          THEN scriptPasses' = RemoveAt(scriptPasses, i)
          ELSE scriptPasses' =
                 ReplaceAt(scriptPasses, i, [scriptPasses[i] EXCEPT !.pc = "getNote"])
  /\ UNCHANGED <<scriptFrame, notes>>

\* generateRecallScript: getNoteById returns; recallContext.completion is called
ScriptNoteLoaded(i) ==
  /\ i \in DOMAIN scriptPasses
  /\ scriptPasses[i].pc = "getNote"
  /\ \E fail \in FaultChoices :
       /\ Spend(fail)
       /\ unhandled' = (unhandled \/ (fail /\ Escapes(scriptStack)))
       /\ LET p == scriptPasses[i]
          IN  IF fail \/ p.note \notin DOMAIN notes \/ ~recallLoaded
              THEN scriptPasses' = RemoveAt(scriptPasses, i)
              ELSE scriptPasses' =
                     ReplaceAt(scriptPasses, i,
                               [p EXCEPT !.pc = "completion",
                                         !.title = notes[p.note].title,
                                         !.content = notes[p.note].content])
  /\ UNCHANGED <<scriptFrame, notes>>

\* generateRecallScript: completion() returns; a non-empty script is sent to the store
ScriptCompleted(i) ==
  /\ i \in DOMAIN scriptPasses
  /\ scriptPasses[i].pc = "completion"
  /\ \E result \in Results :
       /\ Spend(result # "ok")
       /\ unhandled' = (unhandled \/ (result # "ok" /\ Escapes(scriptStack)))
       /\ LET p == scriptPasses[i]
          IN  IF result = "ok" /\ ScriptOf(p.title, p.content) # <<>>
              THEN scriptPasses' = ReplaceAt(scriptPasses, i, [p EXCEPT !.pc = "write"])
              ELSE scriptPasses' = RemoveAt(scriptPasses, i)
  /\ UNCHANGED <<scriptFrame, notes>>

\* generateRecallScript: UPDATE notes SET recallScript returns
ScriptWritten(i) ==
  /\ i \in DOMAIN scriptPasses
  /\ scriptPasses[i].pc = "write"
  /\ \E fail \in FaultChoices :
       /\ Spend(fail)
       /\ unhandled' = (unhandled \/ (fail /\ Escapes(scriptStack)))
       /\ LET p == scriptPasses[i]
          IN  /\ scriptPasses' = RemoveAt(scriptPasses, i)
              /\ notes' = IF ~fail /\ p.note \in DOMAIN notes
                          THEN [notes EXCEPT ![p.note].recallScript =
                                               ScriptOf(p.title, p.content)]
                          ELSE notes
  /\ UNCHANGED scriptFrame

(***************************************************************************)
(* The specification.                                                      *)
(***************************************************************************)
\* Notes without images are created, edited and deleted; anything may fail once.
InitNotes ==
  /\ Init
  /\ NoForeground
  /\ budget = [creates |-> MaxNotes, updates |-> MaxUpdates, deletes |-> MaxDeletes,
               faults |-> MaxFaults]

Next ==
  \/ \E input \in TextInputs : CreateNote(input)
  \/ \E n \in NoteIds, input \in TextInputs : UpdateNote(n, input)
  \/ \E n \in NoteIds : DeleteNote(n)
  \/ EmbeddingTimer
  \/ ScriptTimer
  \/ \E i \in 1..Len(embPasses) : EmbBatchLoaded(i)
  \/ \E i \in 1..Len(embPasses) : EmbNoteLoaded(i)
  \/ \E i \in 1..Len(embPasses) : TextNoteLoaded(i)
  \/ \E i \in 1..Len(embPasses) : TextSelected(i)
  \/ \E i \in 1..Len(embPasses) : TextEmbedded(i)
  \/ \E i \in 1..Len(embPasses) : TextWritten(i)
  \/ \E i \in 1..Len(embPasses) : TextCatch(i)
  \/ \E i \in 1..Len(scriptPasses) : ScriptBatchLoaded(i)
  \/ \E i \in 1..Len(scriptPasses) : ScriptNoteLoaded(i)
  \/ \E i \in 1..Len(scriptPasses) : ScriptCompleted(i)
  \/ \E i \in 1..Len(scriptPasses) : ScriptWritten(i)

Spec == InitNotes /\ [][Next]_vars

(***************************************************************************)
(* Edits of a settled note: the note of InputPlain was created, embedded   *)
(* and given its script; every model is loaded, nothing fails.             *)
(***************************************************************************)
Settled ==
  /\ notes = (1 :> [title |-> InputPlain.title, content |-> InputPlain.content,
                    tags |-> InputPlain.tags,
                    recallScript |-> ScriptOf(InputPlain.title, InputPlain.content)])
  /\ images = <<>>
  /\ note_embeddings =
       (1 :> TextRow(combineNoteText(InputPlain.title, InputPlain.content,
                                     InputPlain.tags)))
  /\ image_embeddings = <<>>
  /\ nextNoteId = 2
  /\ nextImageId = 1
  /\ embeddingLoaded = TRUE
  /\ recallLoaded = TRUE
  /\ pendingNotes = {}
  /\ updateTimer = FALSE
  /\ pendingScriptNotes = {}
  /\ scriptUpdateTimer = FALSE
  /\ timers = <<>>
  /\ embPasses = <<>>
  /\ scriptPasses = <<>>
  /\ saves = 1
  /\ pendingCover = [n \in NoteIds |-> {}]
  /\ pendingScriptCover = [n \in NoteIds |-> {}]
  /\ lateSaves = {}
  /\ drained = {}
  /\ failedTasks = {}
  /\ lastReturn = "stored"
  /\ lastFailed = [n \in NoteIds |-> NoHash]
  /\ lastCall = [op |-> "createNote", result |-> "fulfilled"]
  /\ unhandled = FALSE

\* two edits, each to either text
InitEdits ==
  /\ foreignKeys \in BOOLEAN
  /\ Settled
  /\ NoForeground
  /\ budget = [creates |-> 0, updates |-> MaxEdits, deletes |-> 0, faults |-> 0]

NextEdits ==
  \/ \E n \in NoteIds, input \in TextInputs : UpdateNote(n, input)
  \/ EmbeddingTimer
  \/ ScriptTimer
  \/ \E i \in 1..Len(embPasses) : EmbBatchLoaded(i)
  \/ \E i \in 1..Len(embPasses) : EmbNoteLoaded(i)
  \/ \E i \in 1..Len(embPasses) : TextNoteLoaded(i)
  \/ \E i \in 1..Len(embPasses) : TextSelected(i)
  \/ \E i \in 1..Len(embPasses) : TextEmbedded(i)
  \/ \E i \in 1..Len(embPasses) : TextWritten(i)
  \/ \E i \in 1..Len(scriptPasses) : ScriptBatchLoaded(i)
  \/ \E i \in 1..Len(scriptPasses) : ScriptNoteLoaded(i)
  \/ \E i \in 1..Len(scriptPasses) : ScriptCompleted(i)
  \/ \E i \in 1..Len(scriptPasses) : ScriptWritten(i)

SpecEdits == InitEdits /\ [][NextEdits]_vars

\* a burst of saves of the same edit
InitBurst ==
  /\ foreignKeys \in BOOLEAN
  /\ Settled
  /\ NoForeground
  /\ budget = [creates |-> 0, updates |-> BurstUpdates, deletes |-> 0, faults |-> 0]

NextBurst ==
  \/ \E n \in NoteIds : UpdateNote(n, InputTagged)
  \/ EmbeddingTimer
  \/ ScriptTimer
  \/ \E i \in 1..Len(embPasses) : EmbBatchLoaded(i)
  \/ \E i \in 1..Len(embPasses) : EmbNoteLoaded(i)
  \/ \E i \in 1..Len(embPasses) : TextNoteLoaded(i)
  \/ \E i \in 1..Len(embPasses) : TextSelected(i)
  \/ \E i \in 1..Len(embPasses) : TextEmbedded(i)
  \/ \E i \in 1..Len(embPasses) : TextWritten(i)
  \/ \E i \in 1..Len(scriptPasses) : ScriptBatchLoaded(i)
  \/ \E i \in 1..Len(scriptPasses) : ScriptNoteLoaded(i)
  \/ \E i \in 1..Len(scriptPasses) : ScriptCompleted(i)
  \/ \E i \in 1..Len(scriptPasses) : ScriptWritten(i)

SpecBurst == InitBurst /\ [][NextBurst]_vars

(***************************************************************************)
(* A note with images is created and embedded; something may fail.         *)
(***************************************************************************)
InitFanOut ==
  /\ Init
  /\ NoForeground
  /\ budget = [creates |-> MaxNotes, updates |-> 0, deletes |-> 0,
               faults |-> FanOutFaults]

NextFanOut ==
  \/ CreateNote(InputImages)
  \/ \E i \in 1..Len(embPasses) : EmbNoteLoaded(i)
  \/ \E i \in 1..Len(embPasses) : TextNoteLoaded(i)
  \/ \E i \in 1..Len(embPasses) : TextSelected(i)
  \/ \E i \in 1..Len(embPasses) : TextEmbedded(i)
  \/ \E i \in 1..Len(embPasses) : TextWritten(i)
  \/ \E i \in 1..Len(embPasses) : TextCatch(i)
  \/ \E i \in 1..Len(embPasses) : \E k \in 1..Len(embPasses[i].imgs) : ImageSelected(i, k)
  \/ \E i \in 1..Len(embPasses) : \E k \in 1..Len(embPasses[i].imgs) : ImageEmbedded(i, k)
  \/ \E i \in 1..Len(embPasses) : \E k \in 1..Len(embPasses[i].imgs) : ImageWritten(i, k)
  \/ \E i \in 1..Len(embPasses) : \E k \in 1..Len(embPasses[i].imgs) : ImageCatch(i, k)
  \/ \E i \in 1..Len(scriptPasses) : ScriptNoteLoaded(i)
  \/ \E i \in 1..Len(scriptPasses) : ScriptCompleted(i)
  \/ \E i \in 1..Len(scriptPasses) : ScriptWritten(i)

SpecFanOut == InitFanOut /\ [][NextFanOut]_vars

TypeOK ==
  /\ DOMAIN notes \subseteq 1..(nextNoteId - 1)
  /\ pendingNotes \subseteq NoteIds
  /\ updateTimer \in BOOLEAN
  /\ budget.faults >= 0

(***************************************************************************)
(* State functions the properties below are written in.                    *)
(***************************************************************************)
\* the passes of a note
PassesOf(passes, n) == {i \in DOMAIN passes : passes[i].note = n}

\* the text tasks of a note that wait for embedding() to return
TextCalls(passes, n) ==
  {i \in PassesOf(passes, n) : passes[i].pc = "tasks" /\ passes[i].text.pc = "embedding"}

\* the image tasks that wait for embedding() to return, as <<pass, task>>
ImageCalls(passes) ==
  {c \in UNION {{<<i, k>> : k \in DOMAIN passes[i].imgs} : i \in DOMAIN passes} :
     passes[c[1]].pc = "tasks" /\ passes[c[1]].imgs[c[2]].pc = "embedding"}

\* the script passes that wait for completion() to return
Completions(passes) == {i \in DOMAIN passes : passes[i].pc = "completion"}

Armed(kind) == \E k \in DOMAIN timers : timers[k] = kind

\* the text task of pass i takes its step
TextSteps(i) ==
  \/ embPasses' = RemoveAt(embPasses, i)
  \/ /\ Len(embPasses') = Len(embPasses)
     /\ embPasses'[i].text # embPasses[i].text

C2OnePassPerNote ==
  \A n \in NoteIds : Cardinality(PassesOf(embPasses, n)) <= 1

(***************************************************************************)
(* C3: three schedule calls for one note id within one delay window are    *)
(* served by one timer and one pass: while they wait there is one timer of *)
(* the kind, and when it fires exactly one pass for the id starts, the     *)
(* pending set is empty and no timer of the kind is left.  The same for    *)
(* updateRecallScript.                                                     *)
(***************************************************************************)
C3ThreeCallsOnePass ==
  [][\A n \in NoteIds :
       /\ Cardinality(pendingCover[n]) >= 3
            => /\ Cardinality({k \in DOMAIN timers : timers[k] = "embedding"}) = 1
               /\ pendingCover'[n] = {}
                    => /\ Cardinality(PassesOf(embPasses', n))
                            = Cardinality(PassesOf(embPasses, n)) + 1
                       /\ embPasses'[Len(embPasses')].covers = pendingCover[n]
                       /\ pendingNotes' = {}
                       /\ ~updateTimer'
                       /\ ~Armed("embedding")'
       /\ Cardinality(pendingScriptCover[n]) >= 3
            => /\ Cardinality({k \in DOMAIN timers : timers[k] = "script"}) = 1
               /\ pendingScriptCover'[n] = {}
                    => /\ Cardinality(PassesOf(scriptPasses', n))
                            = Cardinality(PassesOf(scriptPasses, n)) + 1
                       /\ scriptPasses'[Len(scriptPasses')].covers = pendingScriptCover[n]
                       /\ pendingScriptNotes' = {}
                       /\ ~scriptUpdateTimer'
                       /\ ~Armed("script")']_vars

\* one embedding pass and one script pass each serve three saves
C3Witness ==
  /\ \E i \in DOMAIN embPasses :
       embPasses[i].origin = "update" /\ Cardinality(embPasses[i].covers) >= 3
  /\ \E i \in DOMAIN scriptPasses :
       scriptPasses[i].origin = "update" /\ Cardinality(scriptPasses[i].covers) >= 3

(***************************************************************************)
(* C4: a schedule call that arrives while a drained batch is still being   *)
(* processed is not lost: an id in a pending set always has its timer      *)
(* armed, and a save scheduled during the processing is either still       *)
(* pending under its note's id or was drained by a later firing.           *)
(***************************************************************************)
C4LateCallIsServed ==
  /\ pendingNotes # {} => updateTimer /\ Armed("embedding")
  /\ pendingScriptNotes # {} => scriptUpdateTimer /\ Armed("script")
  /\ \A s \in lateSaves :
       \/ s \in drained
       \/ \E n \in pendingNotes : s \in pendingCover[n]
  /\ \A n \in NoteIds : pendingCover[n] # {} => n \in pendingNotes

\* a save arrived while a batch was being processed, and a later firing drained it
C4Witness ==
  /\ lateSaves \cap drained # {}
  /\ \E i \in DOMAIN embPasses :
       embPasses[i].origin = "update" /\ embPasses[i].covers \cap lateSaves # {}

(***************************************************************************)
(* C5: the recall-script pass of a save starts only after the embedding    *)
(* pass of the same save has completed: no script pass is in flight for a  *)
(* save whose embedding pass is in flight or has not started yet.          *)
(***************************************************************************)
C5ScriptAfterEmbedding ==
  \A j \in DOMAIN scriptPasses :
    /\ \A i \in DOMAIN embPasses : scriptPasses[j].covers \cap embPasses[i].covers = {}
    /\ \A n \in NoteIds : embeddingLoaded => scriptPasses[j].covers \cap pendingCover[n] = {}

C7CompletedRowsAreCurrent ==
  (timers = <<>> /\ ~updateTimer /\ embPasses = <<>>)
    => \A n \in DOMAIN notes \cap DOMAIN note_embeddings :
         note_embeddings[n].status = "completed"
           => note_embeddings[n].textHash =
                hashText(combineNoteText(notes[n].title, notes[n].content, notes[n].tags))

C9BackgroundFailuresAreAbsorbed ==
  [][/\ saves' # saves => lastCall'.result = "fulfilled"
     /\ lastCall' = lastCall \/ budget'.creates + budget'.updates + budget'.deletes
                                  < budget.creates + budget.updates + budget.deletes
     /\ ~unhandled']_vars

\* something failed in a pass or a task after the call that started it returned
C9Witness ==
  /\ failedTasks # {}
  /\ lastCall.result = "fulfilled"
  /\ ~unhandled

(***************************************************************************)
(* C10: in processNoteEmbeddings the text task and every image task run to *)
(* their own end: once the pass of a note is over, every task in which     *)
(* nothing failed has written its completed record, whatever failed in the *)
(* others, and nothing was thrown out of the pass.                         *)
(***************************************************************************)
C10TasksAreIndependent ==
  /\ ~unhandled
  /\ \A n \in DOMAIN notes :
       (embeddingLoaded /\ PassesOf(embPasses, n) = {} /\ <<"pass", n>> \notin failedTasks)
         => /\ <<"text", n>> \notin failedTasks
                 => /\ n \in DOMAIN note_embeddings
                    /\ note_embeddings[n] =
                         TextRow(combineNoteText(notes[n].title, notes[n].content,
                                                 notes[n].tags))
            /\ \A im \in DOMAIN images :
                 (/\ images[im].noteId = n
                  /\ Trim(images[im].description) # <<>>
                  /\ <<"image", im>> \notin failedTasks)
                   => /\ im \in DOMAIN image_embeddings
                      /\ image_embeddings[im] = ImageRow(Trim(images[im].description))

\* the pass is over; one image's task failed, the other image and the text have records
C10Witness ==
  \E n \in DOMAIN notes :
    /\ PassesOf(embPasses, n) = {}
    /\ n \in DOMAIN note_embeddings /\ note_embeddings[n].status = "completed"
    /\ \E im, other \in DOMAIN images :
         /\ images[im].noteId = n /\ images[other].noteId = n
         /\ <<"image", im>> \in failedTasks
         /\ other \in DOMAIN image_embeddings
         /\ image_embeddings[other].status = "completed"

(***************************************************************************)
(* The vector codec.  An element of a Float32Array is kept as its 32-bit   *)
(* word, here below 2^31; embeddingToBlob (above) lays the words out in    *)
(* bytes, lowest first, and blobToEmbedding reads them back.  A blob is    *)
(* the value handed to blobToEmbedding: its type, the bytes of the         *)
(* underlying buffer, and for a view its byteOffset and byteLength.        *)
(***************************************************************************)
\* everything but the foreground call
background == <<tables, models, embeddingQueue, scriptQueue, timers, embPasses,
                scriptPasses, budget, saves, lateSaves, failedTasks, lastReturn,
                lastFailed, lastCall, unhandled>>

\* new Uint8Array(float32Array.buffer)
Uint8ArrayOf(bytes) ==
  [kind |-> "Uint8Array", buffer |-> bytes, byteOffset |-> 0, byteLength |-> Len(bytes)]

\* the value the store driver hands out for a BLOB column
StoredBlob(bytes) ==
  [kind |-> blobKind, buffer |-> bytes, byteOffset |-> 0, byteLength |-> Len(bytes)]

Threw == [threw |-> TRUE, vector |-> <<>>]
Returned(vector) == [threw |-> FALSE, vector |-> vector]

\* the four bytes of an element read with the highest byte first
WordBigEndian(bytes) ==
  bytes[4] + 256 * bytes[3] + 65536 * bytes[2] + 16777216 * bytes[1]

\* the element a Float32Array reads from four bytes
Word(bytes) ==
  bytes[1] + 256 * bytes[2] + 65536 * bytes[3] + 16777216 * bytes[4]

\* new Float32Array(buffer, byteOffset, length): RangeError on an offset that is
\* not a multiple of 4 and on a view that runs past the buffer; a fractional
\* length is truncated (ToIndex)
Float32ArrayView(buffer, byteOffset, byteLength) ==
  LET length == byteLength \div 4
  IN  IF byteOffset % 4 # 0 \/ byteOffset + 4 * length > Len(buffer)
      THEN Threw
      ELSE Returned([k \in 1..length |->
                       Word(SubSeq(buffer, byteOffset + 4 * (k - 1) + 1,
                                   byteOffset + 4 * k))])

\* new Float32Array(buffer): RangeError unless the byte length is a multiple of 4
Float32ArrayWhole(buffer) ==
  IF Len(buffer) % 4 # 0 THEN Threw
  ELSE Float32ArrayView(buffer, 0, Len(buffer))

blobToEmbedding(blob) ==
  IF blob.kind = "Uint8Array"
  THEN Float32ArrayView(blob.buffer, blob.byteOffset, blob.byteLength)
  ELSE IF blob.kind = "ArrayBuffer"
  THEN Float32ArrayWhole(blob.buffer)
  ELSE IF blob.kind = "View"
  THEN Float32ArrayView(blob.buffer, blob.byteOffset, blob.byteLength)
  ELSE Threw

(***************************************************************************)
(* The codec on its own: a vector is encoded and the bytes decoded, or a   *)
(* blob of any type and length is decoded.                                 *)
(***************************************************************************)
MaxDim == 3        \* elements of a vector
MaxBlobBytes == 9  \* bytes of a blob that is decoded

\* element values: 0, and words that use each of the four bytes
Elements == {0, 1, 255, 256, 65539, 33554437}

Vectors == UNION {[1..d -> Elements] : d \in 0..MaxDim}

\* buffers of every length: the bytes 1, 2, 3, ...
Buffers == {[k \in 1..len |-> k] : len \in 0..MaxBlobBytes}

Blobs ==
  {[kind |-> kind, buffer |-> buffer, byteOffset |-> offset,
    byteLength |-> Len(buffer) - offset] :
     kind \in BlobKinds, offset \in {0, 2, 4},
     buffer \in {b \in Buffers : Len(b) >= 4}}
  \cup {[kind |-> kind, buffer |-> buffer, byteOffset |-> 0, byteLength |-> Len(buffer)] :
          kind \in BlobKinds, buffer \in Buffers}

InitCodec ==
  /\ Init
  /\ foreignKeys /\ embeddingLoaded /\ recallLoaded
  /\ budget = [creates |-> 0, updates |-> 0, deletes |-> 0, faults |-> 0]
  /\ blobKind = "Uint8Array"
  /\ request \in {[op |-> "embeddingToBlob", embedding |-> v] : v \in Vectors}
                   \cup {[op |-> "blobToEmbedding", blob |-> b] : b \in Blobs}
  /\ outcome = NoResult
  /\ app = AppRunning

\* embeddingToBlob(embedding)
EncodeVector ==
  /\ request.op = "embeddingToBlob"
  /\ outcome = NoResult
  /\ outcome' = [pc |-> "encoded",
                 blob |-> Uint8ArrayOf(embeddingToBlob(request.embedding))]
  /\ UNCHANGED <<background, blobKind, request, app>>

\* blobToEmbedding on the blob just encoded
DecodeEncoded ==
  /\ outcome.pc = "encoded"
  /\ outcome' = [pc |-> "roundTrip", blob |-> outcome.blob,
                 decoded |-> blobToEmbedding(outcome.blob)]
  /\ UNCHANGED <<background, blobKind, request, app>>

\* blobToEmbedding(blob)
DecodeBlob ==
  /\ request.op = "blobToEmbedding"
  /\ outcome = NoResult
  /\ outcome' = [pc |-> "decoded", decoded |-> blobToEmbedding(request.blob)]
  /\ UNCHANGED <<background, blobKind, request, app>>

NextCodec ==
  \/ EncodeVector
  \/ DecodeEncoded
  \/ DecodeBlob

SpecCodec == InitCodec /\ [][NextCodec]_vars

(***************************************************************************)
(* C15: decoding a blob whose byte length is not a multiple of 4 fails; it *)
(* produces no vector.                                                     *)
(***************************************************************************)
C15OddLengthFails ==
  (outcome.pc = "decoded" /\ request.blob.byteLength % 4 # 0) => outcome.decoded.threw

(***************************************************************************)
(* C16: decoding the bytes that encoding a vector of float32 elements      *)
(* produced gives a vector of the same length with the same elements in    *)
(* the same order; the encoding takes 4 bytes per element.                 *)
(***************************************************************************)
C16RoundTrip ==
  outcome.pc = "roundTrip"
    => /\ ~outcome.decoded.threw
       /\ outcome.decoded.vector = request.embedding
       /\ Len(outcome.decoded.vector) = Len(request.embedding)
       /\ outcome.blob.byteLength = 4 * Len(request.embedding)
       /\ Len(outcome.blob.buffer) = 4 * Len(request.embedding)

\* a vector of three different elements, one of them using the highest byte, came back
C16Witness ==
  /\ outcome.pc = "roundTrip"
  /\ request.embedding = <<33554437, 256, 1>>
  /\ outcome.decoded.vector = <<33554437, 256, 1>>

(***************************************************************************)
(* Similarity retrieval.  A similarity is kept in hundredths, rounded      *)
(* down; NaN is what a division of zero by zero and arithmetic on a        *)
(* missing element give, and every comparison with NaN is false.           *)
(***************************************************************************)
TOP_K == 2
ChatTopK == 3
SIMILARITY_THRESHOLD == 50
RELATIVE_THRESHOLD == 75
ScoreScale == 100
NaN == -1

RECURSIVE Dot(_, _, _)
\* sum of a[i] * b[i] for the first n elements
Dot(a, b, n) == IF n = 0 THEN 0 ELSE a[n] * b[n] + Dot(a, b, n - 1)

\* dot / sqrt(norms), in hundredths
Quotient(dot, norms) ==
  CHOOSE s \in 0..ScoreScale :
    /\ s * s * norms <= ScoreScale * ScoreScale * dot * dot
    /\ s = ScoreScale \/ (s + 1) * (s + 1) * norms > ScoreScale * ScoreScale * dot * dot

\* cosineSimilarity(a, b): the loop runs over a's elements
cosineSimilarity(a, b) ==
  IF Len(b) < Len(a) THEN NaN
  ELSE LET normA == Dot(a, a, Len(a))
           normB == Dot(b, b, Len(a))
       IN  IF normA * normB = 0 THEN NaN
           ELSE Quotient(Dot(a, b, Len(a)), normA * normB)

\* a test that lets every positive similarity pass
AbovePositive(similarity) == similarity # NaN /\ similarity > 0

\* similarity >= RETRIEVAL_CONFIG.SIMILARITY_THRESHOLD
AboveThreshold(similarity) == similarity # NaN /\ similarity >= SIMILARITY_THRESHOLD

\* position of the note in noteMatches, 0 when it has no entry
Position(matches, n) ==
  IF \E k \in DOMAIN matches : matches[k].noteId = n
  THEN CHOOSE k \in DOMAIN matches : matches[k].noteId = n
  ELSE 0

\* an iteration that keeps the score of the row read last, higher or not
MatchedLast(matches, row, query, matchType) ==
  LET decoded == blobToEmbedding(row.embedding)
      similarity == cosineSimilarity(query, decoded.vector)
      k == Position(matches, row.noteId)
      entry == [noteId |-> row.noteId, score |-> similarity, matchType |-> matchType]
  IN  IF decoded.threw \/ ~AboveThreshold(similarity) THEN matches
      ELSE IF k = 0 THEN Append(matches, entry)
      ELSE [matches EXCEPT ![k] = entry]

\* the body of one iteration of the loops over the rows: decode, compare, and
\* keep the note's best score; a row that cannot be decoded is skipped
Matched(matches, row, query, matchType) ==
  LET decoded == blobToEmbedding(row.embedding)
      similarity == cosineSimilarity(query, decoded.vector)
      k == Position(matches, row.noteId)
      entry == [noteId |-> row.noteId, score |-> similarity, matchType |-> matchType]
  IN  IF decoded.threw \/ ~AboveThreshold(similarity) THEN matches
      ELSE IF k = 0 THEN Append(matches, entry)
      ELSE IF similarity > matches[k].score THEN [matches EXCEPT ![k] = entry]
      ELSE matches

RECURSIVE Scan(_, _, _, _)
\* the loop over the rows of one SELECT
Scan(matches, rows, query, matchType) ==
  IF rows = <<>> THEN matches
  ELSE Scan(Matched(matches, Head(rows), query, matchType), Tail(rows), query, matchType)

RECURSIVE InsertByScore(_, _)
\* place an entry behind every entry that does not score lower
InsertByScore(sorted, entry) ==
  IF sorted = <<>> THEN <<entry>>
  ELSE IF Head(sorted).score >= entry.score
  THEN <<Head(sorted)>> \o InsertByScore(Tail(sorted), entry)
  ELSE <<entry>> \o sorted

\* the entries left in the order they were built in
Unsorted(matches) == matches

RECURSIVE SortByScore(_)
\* Array.prototype.sort((a, b) => b.score - a.score), which is stable
SortByScore(matches) ==
  IF matches = <<>> THEN <<>>
  ELSE InsertByScore(SortByScore(SubSeq(matches, 1, Len(matches) - 1)),
                     matches[Len(matches)])

\* the sorted matches with no relative filter applied
WithoutRelative(sorted) == sorted

\* sortedMatches.filter: the first entry, and the entries within the relative
\* threshold of the first entry's score
WithinRelative(sorted) ==
  IF sorted = <<>> THEN <<>>
  ELSE <<Head(sorted)>>
         \o SelectSeq(Tail(sorted),
                      LAMBDA m : m.score * ScoreScale
                                   >= Head(sorted).score * RELATIVE_THRESHOLD)

\* no cut at topK
Unsliced(seq, topK) == seq

\* filteredMatches.slice(0, topK)
Slice(seq, topK) == SubSeq(seq, 1, IF topK < Len(seq) THEN topK ELSE Len(seq))

\* finalMatches of the rows read
FinalMatches(noteRows, imageRows, query, topK) ==
  Slice(WithinRelative(SortByScore(
          Scan(Scan(<<>>, noteRows, query, "text"), imageRows, query, "image"))), topK)

(***************************************************************************)
(* retrieveRelevantNotes(queryEmbedding, topK), in two segments: up to the *)
(* two SELECTs (awaited together), and the fetch of the notes' details.    *)
(***************************************************************************)
\* the orders in which a SELECT without ORDER BY may return the keys
Orders(keys) ==
  {order \in [1..Cardinality(keys) -> keys] :
     \A i, j \in DOMAIN order : i # j => order[i] # order[j]}

\* SELECT noteId, embedding FROM note_embeddings WHERE status = 'completed'
CompletedNoteKeys == {n \in DOMAIN note_embeddings : note_embeddings[n].status = "completed"}

\* SELECT ... FROM image_embeddings ie JOIN images i ON ie.imageId = i.id
\* WHERE ie.status = 'completed'
CompletedImageKeys ==
  {i \in DOMAIN image_embeddings \cap DOMAIN images :
     image_embeddings[i].status = "completed"}

NoteRows(order) ==
  [k \in DOMAIN order |->
     [noteId |-> order[k], embedding |-> StoredBlob(note_embeddings[order[k]].embedding)]]

ImageRows(order) ==
  [k \in DOMAIN order |->
     [noteId |-> images[order[k]].noteId,
      embedding |-> StoredBlob(image_embeddings[order[k]].embedding)]]

\* the outer catch block rethrowing
RetrieveRethrown ==
  [pc |-> "done", noteRows |-> <<>>, imageRows |-> <<>>, matches |-> <<>>,
   notes |-> <<>>, dropped |-> {}, failed |-> TRUE, raised |-> TRUE]

\* the outer catch block: return []
RetrieveFailed ==
  [pc |-> "done", noteRows |-> <<>>, imageRows |-> <<>>, matches |-> <<>>,
   notes |-> <<>>, dropped |-> {}, failed |-> TRUE, raised |-> FALSE]

\* getDatabaseInstance, the two SELECTs, the loops, the sort, the filter, the slice
RetrieveQueried ==
  /\ request.op = "retrieveRelevantNotes"
  /\ outcome = NoResult
  /\ \E fail \in FaultChoices :
       /\ Spend(fail)
       /\ IF fail
          THEN outcome' = RetrieveFailed
          ELSE \E noteOrder \in Orders(CompletedNoteKeys),
                  imageOrder \in Orders(CompletedImageKeys) :
                 outcome' =
                   [pc |-> "hydrate",
                    noteRows |-> NoteRows(noteOrder),
                    imageRows |-> ImageRows(imageOrder),
                    matches |-> FinalMatches(NoteRows(noteOrder), ImageRows(imageOrder),
                                             request.queryEmbedding, request.topK),
                    notes |-> <<>>, dropped |-> {}, failed |-> FALSE, raised |-> FALSE]
  /\ UNCHANGED <<tables, models, embeddingQueue, scriptQueue, timers, embPasses,
                 scriptPasses, saves, lateSaves, failedTasks, lastReturn,
                 lastFailed, lastCall, unhandled, blobKind, request, app>>

\* the RetrievedNote built from a match and the note fetched for it
RetrievedNote(match) ==
  [noteId |-> match.noteId,
   title |-> notes[match.noteId].title,
   content |-> notes[match.noteId].content,
   tags |-> notes[match.noteId].tags,
   images |-> [k \in DOMAIN getImagesForNote(match.noteId) |->
                 images[getImagesForNote(match.noteId)[k]].description],
   similarityScore |-> match.score,
   matchType |-> match.matchType]

\* a failed fetch that fails the whole call
HydratedTogether(matches, failing, k) ==
  IF \E j \in DOMAIN matches : j \in failing \/ matches[j].noteId \notin DOMAIN notes
  THEN <<>>
  ELSE [j \in DOMAIN matches |-> RetrievedNote(matches[j])]

RECURSIVE Hydrated(_, _, _)
\* the notes fetched for the matches from position k on; a match whose
\* getNoteById throws or finds no note gives null, which is filtered out
Hydrated(matches, failing, k) ==
  IF k > Len(matches) THEN <<>>
  ELSE (IF k \in failing \/ matches[k].noteId \notin DOMAIN notes
        THEN <<>> ELSE <<RetrievedNote(matches[k])>>)
       \o Hydrated(matches, failing, k + 1)

\* the getNoteById calls return; the notes found are the result
RetrieveHydrated ==
  /\ outcome.pc = "hydrate"
  /\ \E failing \in SUBSET DOMAIN outcome.matches :
       /\ Cardinality(failing) <= budget.faults
       /\ budget' = [budget EXCEPT !.faults = @ - Cardinality(failing)]
       /\ outcome' =
            [outcome EXCEPT
               !.pc = "done",
               !.notes = Hydrated(outcome.matches, failing, 1),
               !.dropped = {outcome.matches[k].noteId :
                              k \in {j \in DOMAIN outcome.matches :
                                       \/ j \in failing
                                       \/ outcome.matches[j].noteId \notin DOMAIN notes}}]
  /\ UNCHANGED <<tables, models, embeddingQueue, scriptQueue, timers, embPasses,
                 scriptPasses, saves, lateSaves, failedTasks, lastReturn,
                 lastFailed, lastCall, unhandled, blobKind, request, app>>

(***************************************************************************)
(* Retrieval over a store of embedded notes: each note's row holds one of  *)
(* a few vectors, or bytes that are no vector; note 1 has an image.  A     *)
(* note may be deleted before or during the call, and one store call may   *)
(* fail.                                                                   *)
(***************************************************************************)
MaxStored == 3       \* notes in the store
RetrieveFaults == 1  \* store errors injected during a retrieval

StoredIds == 1..MaxStored

\* a row of note_embeddings holding the bytes
StoredRow(bytes, status) ==
  [embedding |-> bytes, embeddingDimensions |-> Len(bytes) \div 4,
   textHash |-> hashText(<<>>), status |-> status]

\* rows of note_embeddings of a note: vectors completed, and for the first
\* note also a vector failed and the bytes of a vector followed by two more
NoteRowChoices(n) ==
  IF n = 1
    THEN {StoredRow(embeddingToBlob(<<82, 57>>), "completed"),
          StoredRow(embeddingToBlob(<<20, 97>>), "completed"),
          StoredRow(embeddingToBlob(<<82, 57>>), "failed"),
          StoredRow(embeddingToBlob(<<82, 57>>) \o <<1, 2>>, "completed")}
    ELSE IF n = 2
      THEN {StoredRow(embeddingToBlob(v), "completed") :
              v \in {<<55, 83>>, <<62, 78>>, <<20, 97>>}}
      ELSE {StoredRow(embeddingToBlob(v), "completed") : v \in {<<20, 97>>, <<62, 78>>}}

\* rows of image_embeddings: the vector of the query, and six bytes
ImageRowChoices ==
  {[description |-> <<99>>, embedding |-> bytes, embeddingDimensions |-> Len(bytes) \div 4,
    descriptionHash |-> hashText(<<99>>), status |-> "completed"] :
      bytes \in {embeddingToBlob(<<1, 0>>), embeddingToBlob(<<82, 57>>),
                  embeddingToBlob(<<62, 78>>), <<1, 0, 0, 0, 1, 0>>}}

\* nothing is scheduled or running in the background
IdlePipeline ==
  /\ pendingNotes = {}
  /\ updateTimer = FALSE
  /\ pendingScriptNotes = {}
  /\ scriptUpdateTimer = FALSE
  /\ timers = <<>>
  /\ embPasses = <<>>
  /\ scriptPasses = <<>>
  /\ saves = 0
  /\ pendingCover = [n \in NoteIds |-> {}]
  /\ pendingScriptCover = [n \in NoteIds |-> {}]
  /\ lateSaves = {}
  /\ drained = {}
  /\ failedTasks = {}
  /\ lastReturn = "none"
  /\ lastFailed = [n \in NoteIds |-> NoHash]
  /\ lastCall = [op |-> "none", result |-> "none"]
  /\ unhandled = FALSE

\* the queries: a unit vector with the default topK and with the topK of the
\* chat screen, and the zero vector
Queries ==
  {[op |-> "retrieveRelevantNotes", queryEmbedding |-> <<1, 0>>, topK |-> k] :
     k \in {TOP_K, ChatTopK}}
  \cup {[op |-> "retrieveRelevantNotes", queryEmbedding |-> <<0, 0>>, topK |-> TOP_K]}

InitRetrieve ==
  /\ notes = [n \in StoredIds |->
                [title |-> <<64 + n>>, content |-> <<120>>, tags |-> <<>>,
                 recallScript |-> NoScript]]
  /\ images = (1 :> [noteId |-> 1, description |-> <<99>>])
  /\ note_embeddings \in
       {rows \in [StoredIds -> UNION {NoteRowChoices(n) : n \in StoredIds}] :
          \A n \in StoredIds : rows[n] \in NoteRowChoices(n)}
  /\ image_embeddings \in {<<>>} \cup {(1 :> row) : row \in ImageRowChoices}
  /\ nextNoteId = MaxStored + 1
  /\ nextImageId = 2
  /\ foreignKeys \in BOOLEAN
  /\ embeddingLoaded = TRUE
  /\ recallLoaded = TRUE
  /\ IdlePipeline
  /\ budget = [creates |-> 0, updates |-> 0, deletes |-> MaxDeletes,
               faults |-> RetrieveFaults]
  /\ blobKind \in {"Uint8Array", "ArrayBuffer", "Other"}
  /\ request \in Queries
  /\ outcome = NoResult
  /\ app = AppRunning

(***************************************************************************)
(* The system prompt of a chat answer.  The long fixed texts are cut after *)
(* their first word; the texts placed around the fields of a note are kept *)
(* whole.  Notes carry no audio here.                                      *)
(***************************************************************************)
\* "\nYou": the beginning of the text of the constant
BASE_SYSTEM_PROMPT == <<NL, 89, 111, 117>>

RECURSIVE ImageLines(_, _)
\* descriptionsWithContent.forEach: "\n- Image <idx + 1>: <description>"
ImageLines(descriptions, idx) ==
  IF descriptions = <<>> THEN <<>>
  ELSE <<NL, 45, SP, 73, 109, 97, 103, 101, SP, 48 + idx + 1, 58, SP>>
       \o Head(descriptions) \o ImageLines(Tail(descriptions), idx + 1)

\* "Title: <title>\nContent: <content>"
TitleAndContent(note) ==
  <<84, 105, 116, 108, 101, 58, SP>> \o note.title
  \o <<NL, 67, 111, 110, 116, 101, 110, 116, 58, SP>> \o note.content

\* buildSystemPrompt(retrievedNotes)
buildSystemPrompt(retrievedNotes) ==
  IF Len(retrievedNotes) = 0
  THEN BASE_SYSTEM_PROMPT \o <<NL, NL, 61, 61, 61, 78, 79, 84, 69, 83, 61, 61, 61, NL>>
       \o <<40, 78, 111, 110, 101, SP, 102, 111, 117, 110, 100, 41, NL, NL, 83, 97, 121>>
  ELSE LET topNote == retrievedNotes[1]
           descriptionsWithContent ==
             SelectSeq(topNote.images, LAMBDA description : Trim(description) # <<>>)
           noteText ==
             TitleAndContent(topNote)
             \o (IF Len(topNote.tags) > 0
                 THEN <<NL, 84, 97, 103, 115, 58, SP>> \o Join(topNote.tags) ELSE <<>>)
             \o (IF Len(descriptionsWithContent) > 0
                 THEN <<NL, NL, 73, 109, 97, 103, 101, 115, 58>>
                      \o ImageLines(descriptionsWithContent, 0)
                 ELSE <<>>)
       IN  BASE_SYSTEM_PROMPT \o <<NL, NL, 61, 61, 61, 78, 79, 84, 69, 83, 61, 61, 61, NL>>
           \o noteText \o <<NL, NL, 65, 110, 115, 119, 101, 114>>

\* handleSend of the chat screen after its retrieval: the system prompt is built
PromptBuilt ==
  /\ request.op = "retrieveRelevantNotes"
  /\ request.topK = ChatTopK
  /\ outcome.pc = "done"
  /\ outcome' = [pc |-> "prompted", notes |-> outcome.notes,
                 systemPrompt |-> buildSystemPrompt(outcome.notes)]
  /\ UNCHANGED <<background, blobKind, request, app>>

NextRetrieve ==
  \/ \E n \in StoredIds : DeleteNote(n)
  \/ RetrieveQueried
  \/ RetrieveHydrated
  \/ PromptBuilt

SpecRetrieve == InitRetrieve /\ [][NextRetrieve]_vars

(***************************************************************************)
(* What a retrieval has read, for the properties below.                    *)
(***************************************************************************)
\* the similarity of a row the call has read, NaN when its blob does not decode
RowScore(row) ==
  IF blobToEmbedding(row.embedding).threw THEN NaN
  ELSE cosineSimilarity(request.queryEmbedding, blobToEmbedding(row.embedding).vector)

\* the similarities of the completed embeddings of a note
ScoresRead(n) ==
  {RowScore(outcome.noteRows[k]) :
     k \in {j \in DOMAIN outcome.noteRows : outcome.noteRows[j].noteId = n}}
  \cup {RowScore(outcome.imageRows[k]) :
          k \in {j \in DOMAIN outcome.imageRows : outcome.imageRows[j].noteId = n}}

\* the notes with an embedding at or above the absolute floor of 0.5
Candidates ==
  {n \in StoredIds : \E score \in ScoresRead(n) : score # NaN /\ 2 * score >= ScoreScale}

\* the best similarity of a candidate
BestRead(n) ==
  LET scores == ScoresRead(n)
  IN  CHOOSE best \in scores : \A score \in scores : score = NaN \/ score <= best

\* the best similarity of all
TopRead ==
  LET best == {BestRead(n) : n \in Candidates}
  IN  CHOOSE top \in best : \A score \in best : score <= top

Answered == outcome.pc = "done" /\ request.op = "retrieveRelevantNotes"

(***************************************************************************)
(* C11: retrieveRelevantNotes returns only notes whose best similarity is  *)
(* at least 0.5: a note whose every completed embedding scores below 0.5   *)
(* is not returned, also when no other note is a candidate.                *)
(***************************************************************************)
C11OnlyAboveFloor ==
  Answered
    => \A k \in DOMAIN outcome.notes :
         /\ outcome.notes[k].noteId \in Candidates
         /\ 2 * outcome.notes[k].similarityScore >= ScoreScale
         /\ outcome.notes[k].similarityScore = BestRead(outcome.notes[k].noteId)

\* every note read scores below the floor, and nothing is returned
C11Witness ==
  /\ Answered
  /\ ~outcome.failed
  /\ Len(outcome.noteRows) = MaxStored
  /\ \A n \in StoredIds :
       ScoresRead(n) # {} /\ \A score \in ScoresRead(n) : score # NaN /\ 2 * score < ScoreScale
  /\ outcome.notes = <<>>

(***************************************************************************)
(* C12: the notes returned are in descending order of score; the relative  *)
(* filter keeps the top-scoring note that passes the floor, which is       *)
(* returned first unless fetching its details fails; every other returned  *)
(* note scores at least 0.75 times the top score.  With best scores 0.82,  *)
(* 0.55 and 0.20 only the first note is kept.                              *)
(***************************************************************************)
C12RelativeFilter ==
  (Answered /\ ~outcome.failed)
    => LET candidates == Candidates
           top == TopRead
       IN  /\ \A j, k \in DOMAIN outcome.notes :
                j < k => outcome.notes[j].similarityScore >= outcome.notes[k].similarityScore
           /\ candidates # {}
                => /\ outcome.matches # <<>>
                   /\ outcome.matches[1].score = top
                   /\ outcome.matches[1].noteId \notin outcome.dropped
                        => /\ outcome.notes # <<>>
                           /\ outcome.notes[1].noteId = outcome.matches[1].noteId
                           /\ outcome.notes[1].similarityScore = top
                   /\ \A k \in DOMAIN outcome.notes :
                        4 * outcome.notes[k].similarityScore >= 3 * top
           /\ (/\ Cardinality(candidates) = 2
               /\ {BestRead(n) : n \in candidates} = {82, 55}
               /\ outcome.dropped = {})
                => /\ Len(outcome.notes) = 1
                   /\ outcome.notes[1].similarityScore = 82

\* notes at 0.82, 0.55 and 0.20: the first is returned alone
C12Witness ==
  /\ Answered
  /\ ~outcome.failed
  /\ outcome.dropped = {}
  /\ {ScoresRead(n) : n \in StoredIds} = {{82}, {55}, {20}}
  /\ Len(outcome.notes) = 1
  /\ outcome.notes[1].similarityScore = 82

(***************************************************************************)
(* C13: retrieveRelevantNotes never throws or rejects; a failure of the    *)
(* call as a whole yields the empty list.                                  *)
(***************************************************************************)
C13NeverRaises ==
  Answered
    => /\ ~outcome.raised
       /\ outcome.failed => outcome.notes = <<>>

\* the store failed under the call, and the call returned the empty list
C13Witness ==
  /\ Answered
  /\ outcome.failed
  /\ ~outcome.raised
  /\ outcome.notes = <<>>
  /\ budget.faults < RetrieveFaults

(***************************************************************************)
(* C14: a malformed row (one whose blob is no sequence of whole 4-byte     *)
(* elements, or no blob) is skipped and only that row: the matches are     *)
(* those computed from the other rows, and the call does not raise.        *)
(***************************************************************************)
WellFormed(row) ==
  /\ row.embedding.kind \in {"Uint8Array", "ArrayBuffer", "View"}
  /\ row.embedding.byteLength % 4 = 0

C14MalformedRowIsSkipped ==
  (request.op = "retrieveRelevantNotes" /\ outcome.pc \in {"hydrate", "done"}
     /\ ~outcome.failed)
    => /\ ~outcome.raised
       /\ outcome.matches =
            FinalMatches(SelectSeq(outcome.noteRows, WellFormed),
                         SelectSeq(outcome.imageRows, WellFormed),
                         request.queryEmbedding, request.topK)

(***************************************************************************)
(* Selection of the notes of a reminisce session.  The rows of notes carry *)
(* createdAt and lastShownInReminisce here; times are in milliseconds and  *)
(* the clock reading of a call is part of the request.  Scores are kept in *)
(* hundredths, so that the weights 0.5 and 0.01 are whole numbers.         *)
(***************************************************************************)
DayMs == 86400000
NeverShownDays == 9999
SessionSize == 5

\* lastShownInReminisce of a note never shown: NULL, which is falsy as 0 is
NotShown == 0

\* note.images.length
ImagesOf(n) == {i \in DOMAIN images : images[i].noteId = n}

ageInDays(note, now) == (now - note.createdAt) \div DayMs

daysSinceLastShown(note, now) ==
  IF note.lastShownInReminisce = NotShown THEN NeverShownDays
  ELSE (now - note.lastShownInReminisce) \div DayMs

\* the score of a note, in hundredths
Score(n, now) ==
  (IF ImagesOf(n) # {} THEN 5000 ELSE 0)
  + ageInDays(notes[n], now) * 50
  + Len(notes[n].content)
  + daysSinceLastShown(notes[n], now) * 200
  + (IF notes[n].recallScript # NoScript THEN 1000 ELSE -10000)

\* an assignment in place of the exchange: shuffled[i] = shuffled[j]
Overwritten(array, i, j) == [array EXCEPT ![i + 1] = array[j + 1]]

\* [shuffled[i], shuffled[j]] = [shuffled[j], shuffled[i]], indices from 0
Swapped(array, i, j) == [array EXCEPT ![i + 1] = array[j + 1], ![j + 1] = array[i + 1]]

RECURSIVE ShuffledFrom(_, _)
\* the arrays the loop can leave, from index i down to 1, j drawn from 0..i
ShuffledFrom(array, i) ==
  IF i <= 0 THEN {array}
  ELSE UNION {ShuffledFrom(Swapped(array, i, j), i - 1) : j \in 0..i}

shuffle(array) == ShuffledFrom(array, Len(array) - 1)

RECURSIVE NewestFirst(_)
\* SELECT ... FROM notes ORDER BY createdAt DESC: rows of one createdAt in any order
NewestFirst(ids) ==
  IF ids = {} THEN {<<>>}
  ELSE UNION {{<<n>> \o rest : rest \in NewestFirst(ids \ {n})} :
                n \in {m \in ids : \A k \in ids : notes[m].createdAt >= notes[k].createdAt}}

\* allNotes.map(note => ({note, score}))
Scored(allNotes, now) ==
  [k \in DOMAIN allNotes |-> [note |-> allNotes[k], score |-> Score(allNotes[k], now)]]

\* the notes of the entries
NotesOf(scored) == [k \in DOMAIN scored |-> scored[k].note]

\* what selectReminisceNotes(count) can return for the notes read
Selected(allNotes, count, now) ==
  IF Len(allNotes) = 0 THEN {<<>>}
  ELSE IF Len(allNotes) <= count THEN shuffle(allNotes)
  ELSE shuffle(NotesOf(Slice(SortByScore(Scored(allNotes, now)), count)))

\* selectReminisceNotes(count): getAllNotes fails and the call rejects, or
\* the notes are read, scored, cut and shuffled
SelectReminisceNotes ==
  /\ request.op = "selectReminisceNotes"
  /\ outcome = NoResult
  /\ \E fail \in FaultChoices :
       /\ Spend(fail)
       /\ IF fail
          THEN outcome' = [pc |-> "selected", allNotes |-> <<>>, notes |-> <<>>,
                           rejected |-> TRUE]
          ELSE \E allNotes \in NewestFirst(DOMAIN notes) :
                 \E selected \in Selected(allNotes, request.count, request.now) :
                   outcome' = [pc |-> "selected", allNotes |-> allNotes,
                               notes |-> selected, rejected |-> FALSE]
  /\ UNCHANGED <<tables, models, embeddingQueue, scriptQueue, timers, embPasses,
                 scriptPasses, saves, lateSaves, failedTasks, lastReturn,
                 lastFailed, lastCall, unhandled, blobKind, request, app>>

\* selectedNotes.filter(note => note.recallScript)
WithScript(selected) == SelectSeq(selected, LAMBDA n : notes[n].recallScript # NoScript)

\* loadNotes of the reminisce screen: INIT_SUCCESS or INIT_ERROR
LoadNotes ==
  /\ request.op = "loadNotes"
  /\ outcome = NoResult
  /\ \E fail \in FaultChoices :
       /\ Spend(fail)
       /\ IF fail
          THEN outcome' = [pc |-> "session", allNotes |-> <<>>, selected |-> <<>>,
                           type |-> "INIT_ERROR", notes |-> <<>>,
                           message |-> "Failed to load notes for reminisce session."]
          ELSE \E allNotes \in NewestFirst(DOMAIN notes) :
                 \E selected \in Selected(allNotes, SessionSize, request.now) :
                   outcome' =
                     IF Len(selected) = 0
                     THEN [pc |-> "session", allNotes |-> allNotes, selected |-> selected,
                           type |-> "INIT_ERROR", notes |-> <<>>,
                           message |-> "No notes available. Please create some notes first."]
                     ELSE IF Len(WithScript(selected)) = 0
                     THEN [pc |-> "session", allNotes |-> allNotes, selected |-> selected,
                           type |-> "INIT_ERROR", notes |-> <<>>,
                           message |-> "No recall scripts available. Please wait for scripts to be generated."]
                     ELSE [pc |-> "session", allNotes |-> allNotes, selected |-> selected,
                           type |-> "INIT_SUCCESS", notes |-> WithScript(selected),
                           message |-> ""]
  /\ UNCHANGED <<tables, models, embeddingQueue, scriptQueue, timers, embPasses,
                 scriptPasses, saves, lateSaves, failedTasks, lastReturn,
                 lastFailed, lastCall, unhandled, blobKind, request, app>>

(***************************************************************************)
(* The stored notes of the reminisce runs: up to MaxReminisce notes, each  *)
(* half a day older than the one before, with or without a recall script, *)
(* shown half a day ago or never; the first note with or without an image. *)
(***************************************************************************)
MaxReminisce == 6

\* the clock reading of the call
ReminisceNow == 12 * DayMs

ReminisceNote(n, script, shown) ==
  [title |-> <<64 + n>>, content |-> <<120, 121>>, tags |-> <<>>, recallScript |-> script,
   createdAt |-> ReminisceNow - n * (DayMs \div 2), lastShownInReminisce |-> shown]

\* the rows note n can be: the first four always with a script
ReminisceChoices(n) ==
  IF n <= 4
  THEN {ReminisceNote(n, <<115>>, shown) : shown \in {NotShown, ReminisceNow - DayMs \div 2}}
  ELSE {ReminisceNote(n, <<115>>, ReminisceNow - DayMs \div 2),
        ReminisceNote(n, NoScript, NotShown),
        ReminisceNote(n, NoScript, ReminisceNow - DayMs \div 2)}

ReminisceRequests ==
  {[op |-> "selectReminisceNotes", count |-> count, now |-> ReminisceNow] :
     count \in {2, SessionSize}}
  \cup {[op |-> "loadNotes", now |-> ReminisceNow]}

\* a store of three notes: one ten days old, 200 characters long, with an
\* image and a script, never shown; one a day old, 50 characters long, without
\* image or script, shown earlier today; and the third note of the runs above
ExampleNotes ==
  (1 :> [title |-> <<65>>, content |-> [k \in 1..200 |-> 120], tags |-> <<>>,
         recallScript |-> <<115>>, createdAt |-> ReminisceNow - 10 * DayMs,
         lastShownInReminisce |-> NotShown])
  @@ (2 :> [title |-> <<66>>, content |-> [k \in 1..50 |-> 120], tags |-> <<>>,
            recallScript |-> NoScript, createdAt |-> ReminisceNow - DayMs,
            lastShownInReminisce |-> ReminisceNow - DayMs \div 2])
  @@ (3 :> ReminisceNote(3, <<115>>, ReminisceNow - DayMs \div 2))

InitReminisce ==
  /\ \/ \E stored \in 0..MaxReminisce :
          /\ notes \in {rows \in [1..stored -> UNION {ReminisceChoices(n) : n \in 1..stored}] :
                          \A n \in 1..stored : rows[n] \in ReminisceChoices(n)}
          /\ nextNoteId = stored + 1
          /\ images \in {<<>>} \cup {(1 :> [noteId |-> 1, description |-> <<99>>]) : n \in 1..stored}
     \/ /\ notes = ExampleNotes
        /\ nextNoteId = 4
        /\ images = (1 :> [noteId |-> 1, description |-> <<99>>])
  /\ note_embeddings = <<>>
  /\ image_embeddings = <<>>
  /\ nextImageId = 2
  /\ foreignKeys = TRUE
  /\ embeddingLoaded = TRUE
  /\ recallLoaded = TRUE
  /\ IdlePipeline
  /\ budget = [creates |-> 0, updates |-> 0, deletes |-> 0, faults |-> MaxFaults]
  /\ blobKind = "Uint8Array"
  /\ request \in ReminisceRequests
  /\ outcome = NoResult
  /\ app = AppRunning

NextReminisce ==
  \/ SelectReminisceNotes
  \/ LoadNotes

SpecReminisce == InitReminisce /\ [][NextReminisce]_vars

\* the notes read that have a recall script
Scripted == {n \in DOMAIN notes : notes[n].recallScript # NoScript}

\* the number of places of a sequence holding x
Occurrences(seq, x) == Cardinality({k \in DOMAIN seq : seq[k] = x})

SelectReturned ==
  outcome.pc = "selected" /\ request.op = "selectReminisceNotes" /\ ~outcome.rejected

(***************************************************************************)
(* C17: with no more notes stored than the session size asked for,         *)
(* selectReminisceNotes returns every stored note exactly once.            *)
(***************************************************************************)
C17AllNotesOnce ==
  (SelectReturned /\ Cardinality(DOMAIN notes) <= request.count)
    => /\ Len(outcome.notes) = Cardinality(DOMAIN notes)
       /\ \A n \in DOMAIN notes : Occurrences(outcome.notes, n) = 1

\* five notes asked for, five stored, returned in another order than read
C17Witness ==
  /\ SelectReturned
  /\ request.count = SessionSize
  /\ Cardinality(DOMAIN notes) = SessionSize
  /\ outcome.notes # outcome.allNotes
  /\ \A n \in DOMAIN notes : Occurrences(outcome.notes, n) = 1

(***************************************************************************)
(* C18: with more notes stored than asked for, and at least as many of     *)
(* them with a recall script as asked for, no note without a recall script *)
(* is returned.                                                            *)
(***************************************************************************)
C18OnlyScripted ==
  (SelectReturned /\ Cardinality(DOMAIN notes) > request.count
     /\ Cardinality(Scripted) >= request.count)
    => \A k \in DOMAIN outcome.notes : outcome.notes[k] \in Scripted

(***************************************************************************)
(* C19: with at least five notes stored that have a recall script, the     *)
(* session starts with exactly five notes, each with a recall script.      *)
(***************************************************************************)
C19FiveScripted ==
  (outcome.pc = "session" /\ Cardinality(Scripted) >= SessionSize
     /\ outcome.allNotes # <<>>)
    => /\ outcome.type = "INIT_SUCCESS"
       /\ Len(outcome.notes) = SessionSize
       /\ \A k \in DOMAIN outcome.notes : outcome.notes[k] \in Scripted

(***************************************************************************)
(* The start of the application: AppProvider's setup, ModelManager's       *)
(* initialize, and the gate that shows the loading screen or the screens.  *)
(* One action per stretch of setup between two awaits.                     *)
(***************************************************************************)
GateFaults == 1

\* appReducer(state, action)
appReducer(state, action) ==
  CASE action.type = "DB_READY" -> [state EXCEPT !.dbReady = TRUE]
    [] action.type = "MODEL_PROGRESS" -> [state EXCEPT !.downloadProgress = action.progress]
    [] action.type = "MODEL_READY" -> [state EXCEPT !.modelsReady = TRUE]
    [] action.type = "ERROR" -> [state EXCEPT !.error = action.message]
    [] OTHER -> state

\* initialState, the provider mounted, no database open, no model loaded
initialState ==
  [dbReady |-> FALSE, modelsReady |-> FALSE, downloadProgress |-> 0, error |-> NoError,
   mounted |-> TRUE, pc |-> "database", dbInstance |-> "none", ragLoaded |-> FALSE]

\* the progress callback setup hands to ModelManager.initialize
Progress(state, progress) ==
  IF state.mounted
  THEN appReducer(state, [type |-> "MODEL_PROGRESS", progress |-> progress])
  ELSE state

\* setup after initialize has returned false
ModelsFailed(state) ==
  IF ~state.mounted THEN [state EXCEPT !.pc = "done"]
  ELSE [appReducer(appReducer(state, [type |-> "ERROR",
                                      message |-> "Failed to initialize AI models"]),
                   [type |-> "MODEL_READY"])
          EXCEPT !.pc = "done"]

\* setup's catch block, with the message of the error caught
SetupFailed(state, message) ==
  IF ~state.mounted THEN [state EXCEPT !.pc = "done"]
  ELSE [appReducer(appReducer(appReducer(state, [type |-> "ERROR", message |-> message]),
                              [type |-> "DB_READY"]),
                   [type |-> "MODEL_READY"])
          EXCEPT !.pc = "done"]

\* how initializeDatabase can end: open throws, migrateDbIfNeeded throws after
\* dbInstance is assigned, or the database is open and migrated
DatabaseResults ==
  IF app.dbInstance # "none" THEN {app.dbInstance}
  ELSE IF budget.faults > 0 THEN {"none", "opened", "migrated"} ELSE {"migrated"}

gateFrame ==
  UNCHANGED <<tables, foreignKeys, embeddingQueue, scriptQueue, timers, embPasses,
              scriptPasses, saves, lateSaves, failedTasks, lastReturn, lastFailed,
              lastCall, unhandled, blobKind, request, outcome>>

\* await initializeDatabase(), then DB_READY, or the catch block
InitializeDatabase ==
  /\ app.pc = "database"
  /\ \E result \in DatabaseResults :
       LET failed == app.dbInstance = "none" /\ result # "migrated"
           opened == [app EXCEPT !.dbInstance = result]
       IN  /\ Spend(failed)
           /\ app' = IF failed THEN SetupFailed(opened, "migration failed")
                     ELSE IF ~app.mounted THEN [opened EXCEPT !.pc = "done"]
                     ELSE [appReducer(opened, [type |-> "DB_READY"]) EXCEPT !.pc = "check"]
  /\ UNCHANGED <<embeddingLoaded, recallLoaded>>
  /\ gateFrame

\* checkModelsExist(): with all three files present the first model is loaded
\* next, else downloadModels is awaited
CheckModels ==
  /\ app.pc = "check"
  /\ \E exists \in BOOLEAN :
       app' = IF exists THEN [Progress(app, 25) EXCEPT !.pc = "rag"]
              ELSE [app EXCEPT !.pc = "download"]
  /\ UNCHANGED <<embeddingLoaded, recallLoaded, budget>>
  /\ gateFrame

\* downloadModels(progressCallback) reports its progress
DownloadProgress ==
  /\ app.pc = "download"
  /\ \E progress \in {10, 20} :
       /\ progress > app.downloadProgress
       /\ app' = Progress(app, progress)
  /\ UNCHANGED <<embeddingLoaded, recallLoaded, budget>>
  /\ gateFrame

\* downloadModels(progressCallback) ends
DownloadModels ==
  /\ app.pc = "download"
  /\ \E fail \in FaultChoices :
       /\ Spend(fail)
       /\ app' = IF fail THEN ModelsFailed(app)
                 ELSE [Progress(app, 25) EXCEPT !.pc = "rag"]
  /\ UNCHANGED <<embeddingLoaded, recallLoaded>>
  /\ gateFrame

\* instance.ragContext = await initLlama(...)
LoadRag ==
  /\ app.pc = "rag"
  /\ \E fail \in FaultChoices :
       /\ Spend(fail)
       /\ app' = IF fail THEN ModelsFailed(app)
                 ELSE [Progress([app EXCEPT !.ragLoaded = TRUE], 50) EXCEPT !.pc = "embedding"]
  /\ UNCHANGED <<embeddingLoaded, recallLoaded>>
  /\ gateFrame

\* instance.embeddingContext = await initLlama(...)
LoadEmbedding ==
  /\ app.pc = "embedding"
  /\ \E fail \in FaultChoices :
       /\ Spend(fail)
       /\ embeddingLoaded' = (embeddingLoaded \/ ~fail)
       /\ app' = IF fail THEN ModelsFailed(app)
                 ELSE [Progress(app, 75) EXCEPT !.pc = "recall"]
  /\ UNCHANGED recallLoaded
  /\ gateFrame

\* instance.recallContext = await initLlama(...), return true, MODEL_READY
LoadRecall ==
  /\ app.pc = "recall"
  /\ \E fail \in FaultChoices :
       /\ Spend(fail)
       /\ recallLoaded' = (recallLoaded \/ ~fail)
       /\ app' = IF fail THEN ModelsFailed(app)
                 ELSE IF ~app.mounted THEN [app EXCEPT !.pc = "done"]
                 ELSE [appReducer(Progress(app, 100), [type |-> "MODEL_READY"])
                         EXCEPT !.pc = "done"]
  /\ UNCHANGED embeddingLoaded
  /\ gateFrame

\* the cleanup of the effect: mounted = false
Unmount ==
  /\ app.mounted
  /\ app' = [app EXCEPT !.mounted = FALSE]
  /\ UNCHANGED <<embeddingLoaded, recallLoaded, budget>>
  /\ gateFrame

\* AppGate renders <Slot /> and not the loading screen
Revealed == app.dbReady /\ app.modelsReady

InitGate ==
  /\ notes = <<>>
  /\ images = <<>>
  /\ note_embeddings = <<>>
  /\ image_embeddings = <<>>
  /\ nextNoteId = 1
  /\ nextImageId = 1
  /\ foreignKeys \in BOOLEAN
  /\ embeddingLoaded = FALSE
  /\ recallLoaded = FALSE
  /\ IdlePipeline
  /\ budget = [creates |-> 0, updates |-> 0, deletes |-> 0, faults |-> GateFaults]
  /\ blobKind = "Uint8Array"
  /\ request = NoCall
  /\ outcome = NoResult
  /\ app = initialState

NextGate ==
  \/ InitializeDatabase
  \/ CheckModels
  \/ DownloadProgress
  \/ DownloadModels
  \/ LoadRag
  \/ LoadEmbedding
  \/ LoadRecall
  \/ Unmount

SpecGate == InitGate /\ [][NextGate]_vars

(***************************************************************************)
(* C20: the gate shows the screens of the application only when the        *)
(* database is initialized and the three models are loaded; after a failed *)
(* or before the end of the initialization it shows the loading screen.    *)
(***************************************************************************)
C20GateOnlyWhenReady ==
  Revealed
    => /\ app.dbInstance = "migrated"
       /\ app.ragLoaded
       /\ embeddingLoaded
       /\ recallLoaded

\* the similarities of the completed text embedding of a note
TextScoresRead(n) ==
  {RowScore(outcome.noteRows[k]) :
     k \in {j \in DOMAIN outcome.noteRows : outcome.noteRows[j].noteId = n}}

\* the similarities of the completed image embeddings of a note
ImageScoresRead(n) ==
  {RowScore(outcome.imageRows[k]) :
     k \in {j \in DOMAIN outcome.imageRows : outcome.imageRows[j].noteId = n}}

\* the candidates within the relative threshold of the best one
Survivors ==
  LET candidates == Candidates
  IN  IF candidates = {} THEN {}
      ELSE LET top == TopRead
           IN  {n \in candidates : 4 * BestRead(n) >= 3 * top}

(***************************************************************************)
(* C24: a note id appears at most once in the result; its similarityScore  *)
(* is the highest score of the note's completed text and image embeddings; *)
(* matchType is the kind of embedding with that score, text when both have *)
(* it.                                                                     *)
(***************************************************************************)
C24BestMatchPerNote ==
  (Answered /\ ~outcome.failed)
    => /\ \A j, k \in DOMAIN outcome.notes :
            j # k => outcome.notes[j].noteId # outcome.notes[k].noteId
       /\ \A k \in DOMAIN outcome.notes :
            LET best == BestRead(outcome.notes[k].noteId)
            IN  /\ outcome.notes[k].similarityScore = best
                /\ outcome.notes[k].matchType =
                     IF best \in TextScoresRead(outcome.notes[k].noteId)
                     THEN "text" ELSE "image"

\* a note whose text and image score the same 0.82 is returned as a text match
C24Witness ==
  /\ Answered
  /\ \E k \in DOMAIN outcome.notes :
       /\ TextScoresRead(outcome.notes[k].noteId) = {82}
       /\ ImageScoresRead(outcome.notes[k].noteId) = {82}
       /\ outcome.notes[k].similarityScore = 82
       /\ outcome.notes[k].matchType = "text"

(***************************************************************************)
(* C25: at most topK notes are returned, each of them one of the topK      *)
(* highest-scoring notes that passed the absolute and the relative         *)
(* threshold; a note lost when its details are fetched is not replaced.    *)
(***************************************************************************)
C25AtMostTopK ==
  (Answered /\ ~outcome.failed)
    => LET survivors == Survivors
       IN  /\ Len(outcome.notes) <= request.topK
           /\ Len(outcome.matches) =
                IF Cardinality(survivors) < request.topK
                THEN Cardinality(survivors) ELSE request.topK
           /\ \A k \in DOMAIN outcome.notes :
                /\ outcome.notes[k].noteId \in survivors
                /\ \E j \in DOMAIN outcome.matches :
                     outcome.matches[j].noteId = outcome.notes[k].noteId
                /\ Cardinality({n \in survivors :
                                  BestRead(n) > outcome.notes[k].similarityScore})
                     < request.topK

\* three notes pass both thresholds, two are asked for and two are returned
C25Witness ==
  /\ Answered
  /\ ~outcome.failed
  /\ Cardinality(Survivors) = 3
  /\ request.topK = TOP_K
  /\ Len(outcome.notes) = TOP_K

(***************************************************************************)
(* C26: a note whose details cannot be fetched, or which is no longer      *)
(* stored, is missing from the result and nothing else is: the other notes *)
(* are returned in the order of their scores and the call does not fail.   *)
(***************************************************************************)
C26OnlyFailedNoteIsDropped ==
  (Answered /\ ~outcome.failed)
    => /\ ~outcome.raised
       /\ [k \in DOMAIN outcome.notes |-> outcome.notes[k].noteId]
            = SelectSeq([k \in DOMAIN outcome.matches |-> outcome.matches[k].noteId],
                        LAMBDA n : n \notin outcome.dropped)
       /\ \A n \in outcome.dropped : \E k \in DOMAIN outcome.matches :
            outcome.matches[k].noteId = n

\* of two notes that passed, the fetch of the first failed and the second is returned
C26Witness ==
  /\ Answered
  /\ ~outcome.failed
  /\ Len(outcome.matches) = 2
  /\ outcome.matches[1].noteId \in DOMAIN notes
  /\ outcome.dropped = {outcome.matches[1].noteId}
  /\ Len(outcome.notes) = 1
  /\ outcome.notes[1].noteId = outcome.matches[2].noteId

\* the text holds the part as a run of consecutive characters
Contains(text, part) ==
  \E i \in 0..(Len(text) - Len(part)) : SubSeq(text, i + 1, i + Len(part)) = part

(***************************************************************************)
(* C21: the system prompt built for a chat query holds the title and the   *)
(* content of every note the retrieval returned for it.                    *)
(***************************************************************************)
C21PromptHoldsEveryNote ==
  outcome.pc = "prompted"
    => \A k \in DOMAIN outcome.notes :
         Contains(outcome.systemPrompt, TitleAndContent(outcome.notes[k]))

(***************************************************************************)
(* C22: when the embedding call of generateNoteTextEmbedding throws or     *)
(* returns nothing, and in the catch block that follows, no row of         *)
(* note_embeddings is created; the note's row, if there is one, keeps its  *)
(* embedding, its dimension and its textHash, and its status is failed     *)
(* once the catch block's UPDATE has returned without error.               *)
(***************************************************************************)
C22FailureOnlyMarksTheRow ==
  [][\A i \in DOMAIN embPasses :
       LET p == embPasses[i]
           n == p.note
       IN  (/\ p.pc = "tasks"
            /\ \/ p.text.pc = "catch"
               \/ p.text.pc = "embedding" /\ budget'.faults < budget.faults
            /\ TextSteps(i))
           => /\ DOMAIN note_embeddings' = DOMAIN note_embeddings
              /\ \A m \in DOMAIN note_embeddings \ {n} :
                   note_embeddings'[m] = note_embeddings[m]
              /\ n \in DOMAIN note_embeddings
                   => /\ note_embeddings'[n].embedding = note_embeddings[n].embedding
                      /\ note_embeddings'[n].embeddingDimensions
                           = note_embeddings[n].embeddingDimensions
                      /\ note_embeddings'[n].textHash = note_embeddings[n].textHash
                      /\ p.text.pc = "embedding" => note_embeddings'[n] = note_embeddings[n]
                      /\ (p.text.pc = "catch" /\ budget'.faults = budget.faults)
                           => note_embeddings'[n].status = "failed"]_vars

\* the embedding of the edited text failed: the row is marked failed and still
\* holds the vector and the hash of the text before the edit
C22Witness ==
  \E n \in DOMAIN notes :
    /\ n \in DOMAIN note_embeddings
    /\ PassesOf(embPasses, n) = {}
    /\ lastFailed[n] = hashText(combineNoteText(notes[n].title, notes[n].content,
                                                notes[n].tags))
    /\ note_embeddings[n].status = "failed"
    /\ note_embeddings[n].textHash # lastFailed[n]
    /\ \E input \in TextInputs :
         note_embeddings[n] =
           [TextRow(combineNoteText(input.title, input.content, input.tags))
              EXCEPT !.status = "failed"]

(***************************************************************************)
(* C23: every pass and every scheduled update of createNote and updateNote *)
(* is for a save whose transaction has committed; a call whose transaction *)
(* fails rejects, writes nothing and starts or schedules nothing.          *)
(***************************************************************************)
C23TasksFollowTheCommit ==
  [][/\ \A i \in DOMAIN embPasses' :
          /\ embPasses'[i].covers \subseteq 1..saves'
          /\ embPasses'[i].note < nextNoteId'
     /\ \A i \in DOMAIN scriptPasses' :
          /\ scriptPasses'[i].covers \subseteq 1..saves'
          /\ scriptPasses'[i].note < nextNoteId'
     /\ \A n \in NoteIds : pendingCover'[n] \cup pendingScriptCover'[n] \subseteq 1..saves'
     /\ pendingNotes' \cup pendingScriptNotes' \subseteq 1..(nextNoteId' - 1)
     /\ (/\ budget'.creates + budget'.updates < budget.creates + budget.updates
         /\ saves' = saves)
          => /\ lastCall'.result = "rejected"
             /\ UNCHANGED <<tables, note_embeddings, image_embeddings, embPasses,
                            scriptPasses, timers, pendingNotes, pendingScriptNotes>>
     /\ saves' # saves
          => /\ saves' = saves + 1
             /\ lastCall'.result = "fulfilled"
             /\ budget'.creates + budget'.updates < budget.creates + budget.updates]_vars

\* an updateNote was rejected and nothing is scheduled or running for the note
C23Witness ==
  /\ lastCall = [op |-> "updateNote", result |-> "rejected"]
  /\ saves = 1
  /\ timers = <<>>
  /\ pendingNotes = {}
  /\ pendingScriptNotes = {}
  /\ embPasses = <<>>
  /\ scriptPasses = <<>>


(***************************************************************************)
(* C29: an image whose caption is empty or only white space never has an   *)
(* image_embeddings row: its generateImageEmbedding task is over at once,  *)
(* never waits for a SELECT, an embedding() call or a write, and is never  *)
(* counted as failed.                                                      *)
(***************************************************************************)
Uncaptioned == {i \in DOMAIN images : Trim(images[i].description) = <<>>}

C29NoRowWithoutCaption ==
  /\ Uncaptioned \cap DOMAIN image_embeddings = {}
  /\ \A i \in DOMAIN embPasses : \A k \in DOMAIN embPasses[i].imgs :
       embPasses[i].imgs[k].image \in Uncaptioned => embPasses[i].imgs[k].pc = "done"
  /\ \A i \in Uncaptioned : <<"image", i>> \notin failedTasks

\* the captioned images of the note are embedded and stored, next to one
\* whose caption is a single space
C29Witness ==
  /\ \E i \in Uncaptioned : images[i].description # <<>>
  /\ Cardinality(DOMAIN image_embeddings) = 2
  /\ \A i \in DOMAIN image_embeddings : image_embeddings[i].status = "completed"


(***************************************************************************)
(* A later run of the application in which the embedding model did not     *)
(* load: the store holds a note with an image and the embeddings of both   *)
(* from an earlier run; notes are created, saved and deleted.              *)
(***************************************************************************)
UnreadyCaption == <<99>>

InitUnready ==
  /\ notes = (1 :> [title |-> InputPlain.title, content |-> InputPlain.content,
                    tags |-> InputPlain.tags, recallScript |-> NoScript])
  /\ images = (1 :> [noteId |-> 1, description |-> UnreadyCaption])
  /\ note_embeddings =
       (1 :> TextRow(combineNoteText(InputPlain.title, InputPlain.content,
                                     InputPlain.tags)))
  /\ image_embeddings = (1 :> ImageRow(UnreadyCaption))
  /\ nextNoteId = 2
  /\ nextImageId = 2
  /\ foreignKeys \in BOOLEAN
  /\ embeddingLoaded = FALSE
  /\ recallLoaded = FALSE
  /\ pendingNotes = {}
  /\ updateTimer = FALSE
  /\ pendingScriptNotes = {}
  /\ scriptUpdateTimer = FALSE
  /\ timers = <<>>
  /\ embPasses = <<>>
  /\ scriptPasses = <<>>
  /\ saves = 0
  /\ pendingCover = [n \in NoteIds |-> {}]
  /\ pendingScriptCover = [n \in NoteIds |-> {}]
  /\ lateSaves = {}
  /\ drained = {}
  /\ failedTasks = {}
  /\ lastReturn = "none"
  /\ lastFailed = [n \in NoteIds |-> NoHash]
  /\ lastCall = [op |-> "none", result |-> "none"]
  /\ unhandled = FALSE
  /\ NoForeground
  /\ budget = [creates |-> MaxNotes, updates |-> MaxEdits, deletes |-> MaxDeletes,
               faults |-> MaxFaults]

NextUnready ==
  \/ \E input \in TextInputs \cup {InputImages} : CreateNote(input)
  \/ \E n \in NoteIds, input \in TextInputs \cup {InputImages} : UpdateNote(n, input)
  \/ \E n \in NoteIds : DeleteNote(n)
  \/ EmbeddingTimer
  \/ ScriptTimer

SpecUnready == InitUnready /\ [][NextUnready]_vars

(***************************************************************************)
(* C30: while the embedding model is not ready, processNoteEmbeddings and  *)
(* the timer callback of updateNoteEmbeddings return at their readiness    *)
(* test: no embedding pass is under way after any step, so there is no     *)
(* embedding() call and no write; no embedding row is created or altered   *)
(* (a row only goes with its deleted note or image), nothing is recorded   *)
(* as failed and no rejection goes unhandled.                              *)
(***************************************************************************)
C30NothingWithoutTheModel ==
  [][~embeddingLoaded =>
       /\ embPasses' = <<>>
       /\ \A n \in DOMAIN note_embeddings' :
            n \in DOMAIN note_embeddings /\ note_embeddings'[n] = note_embeddings[n]
       /\ \A i \in DOMAIN image_embeddings' :
            i \in DOMAIN image_embeddings /\ image_embeddings'[i] = image_embeddings[i]
       /\ failedTasks' = {}
       /\ lastReturn' = "none"
       /\ ~unhandled']_vars

\* without the model: a second note was created, a save of the first was
\* queued and the timer callback has drained the queue; the stored rows of
\* the first note are those of the earlier run
C30Witness ==
  /\ ~embeddingLoaded
  /\ 2 \in DOMAIN notes
  /\ drained # {}
  /\ timers = <<>> /\ pendingNotes = {}
  /\ 1 \in DOMAIN note_embeddings /\ note_embeddings[1].status = "completed"
  /\ 2 \notin DOMAIN note_embeddings


\* the notes a selectReminisceNotes call returned
NotesReturned == {outcome.notes[k] : k \in DOMAIN outcome.notes}

(***************************************************************************)
(* C27: with more notes stored than asked for, selectReminisceNotes        *)
(* returns exactly count notes, no note twice, and no note left out scores *)
(* higher than a returned one.  The score (in hundredths here) is 50 for   *)
(* images, half a point per day of age, a hundredth per character, two     *)
(* points per day since the note was last shown (9999 days when never),    *)
(* and 10 with a recall script or -100 without: 20065 and -99 for the two  *)
(* notes of the example, the first of which is returned, the second not.   *)
(***************************************************************************)
C27TopScoresReturned ==
  (SelectReturned /\ Cardinality(DOMAIN notes) > request.count)
    => /\ Len(outcome.notes) = request.count
       /\ Cardinality(NotesReturned) = request.count
       /\ NotesReturned \subseteq DOMAIN notes
       /\ \A o \in DOMAIN notes \ NotesReturned : \A r \in NotesReturned :
            Score(o, request.now) <= Score(r, request.now)
       /\ notes = ExampleNotes
            => /\ Score(1, request.now) = 2006500
               /\ Score(2, request.now) = -9900
               /\ 1 \in NotesReturned /\ 2 \notin NotesReturned

\* two of the three notes of the example were asked for and returned
C27Witness ==
  /\ SelectReturned
  /\ notes = ExampleNotes
  /\ request.count = 2
  /\ NotesReturned = {1, 3}
  /\ Score(1, request.now) = 2006500 /\ Score(2, request.now) = -9900


(***************************************************************************)
(* The end of a reminisce session: handleEndSession hands the ids of the   *)
(* session's notes to markNotesAsShown, which awaits markNoteAsShown for   *)
(* one id after the other.  One action per UPDATE that returns.            *)
(***************************************************************************)
MaxShown == 3

\* Date.now() when the session ends, a minute after it was loaded
EndNow == ReminisceNow + DayMs \div 1440

RECURSIVE Arrangements(_, _)
\* the lists of up to len different ids
Arrangements(ids, len) ==
  IF len = 0 THEN {<<>>}
  ELSE {<<>>} \cup UNION {{<<n>> \o rest : rest \in Arrangements(ids \ {n}, len - 1)} :
                            n \in ids}

\* notes.map(note => note.id): notes of the session, one of them perhaps
\* deleted since
EndSessionRequests ==
  {[op |-> "handleEndSession", noteIds |-> noteIds, now |-> EndNow] :
     noteIds \in Arrangements(1..(MaxShown + 1), MaxShown)}

endFrame == <<images, note_embeddings, image_embeddings, nextNoteId, nextImageId, models,
              embeddingQueue, scriptQueue, timers, embPasses, scriptPasses, saves,
              lateSaves, failedTasks, lastReturn, lastFailed, lastCall, unhandled,
              blobKind, request, app>>

\* markNotesAsShown when the loop has dealt with the first done ids: the
\* next markNoteAsShown issues its UPDATE, or the promise resolves and
\* handleEndSession calls router.back()
markNotesAsShown(noteIds, done, attempts, failed) ==
  IF done < Len(noteIds)
  THEN [pc |-> "update", index |-> done + 1, attempts |-> Append(attempts, noteIds[done + 1]),
        failed |-> failed, rejected |-> FALSE]
  ELSE [pc |-> "back", index |-> done, attempts |-> attempts, failed |-> failed,
        rejected |-> FALSE]

\* handleEndSession up to the first await of markNoteAsShown
handleEndSession ==
  /\ request.op = "handleEndSession"
  /\ outcome = NoResult
  /\ outcome' = markNotesAsShown(request.noteIds, 0, <<>>, {})
  /\ UNCHANGED <<notes, budget, endFrame>>

\* a markNoteAsShown whose failed UPDATE is thrown on to markNotesAsShown
markNoteAsShownThrows ==
  /\ request.op = "handleEndSession"
  /\ outcome.pc = "update"
  /\ \E fail \in FaultChoices :
       /\ Spend(fail)
       /\ LET noteId == request.noteIds[outcome.index]
          IN  IF fail
              THEN /\ outcome' = [outcome EXCEPT !.pc = "back", !.rejected = TRUE,
                                                 !.failed = @ \cup {outcome.index}]
                   /\ UNCHANGED notes
              ELSE /\ notes' = IF noteId \in DOMAIN notes
                               THEN [notes EXCEPT ![noteId].lastShownInReminisce = request.now]
                               ELSE notes
                   /\ outcome' = markNotesAsShown(request.noteIds, outcome.index,
                                                  outcome.attempts, outcome.failed)
  /\ UNCHANGED endFrame

\* markNoteAsShown: the UPDATE returns, an error is caught and dropped; the
\* loop of markNotesAsShown goes on
markNoteAsShown ==
  /\ request.op = "handleEndSession"
  /\ outcome.pc = "update"
  /\ \E fail \in FaultChoices :
       /\ Spend(fail)
       /\ LET noteId == request.noteIds[outcome.index]
          IN  /\ notes' = IF ~fail /\ noteId \in DOMAIN notes
                          THEN [notes EXCEPT ![noteId].lastShownInReminisce = request.now]
                          ELSE notes
              /\ outcome' = markNotesAsShown(request.noteIds, outcome.index, outcome.attempts,
                                             IF fail THEN outcome.failed \cup {outcome.index}
                                             ELSE outcome.failed)
  /\ UNCHANGED endFrame

InitEndSession ==
  /\ notes \in {rows \in [1..MaxShown -> UNION {ReminisceChoices(n) : n \in 1..MaxShown}] :
                  \A n \in 1..MaxShown : rows[n] \in ReminisceChoices(n)}
  /\ nextNoteId = MaxShown + 2
  /\ images = <<>>
  /\ note_embeddings = <<>>
  /\ image_embeddings = <<>>
  /\ nextImageId = 1
  /\ foreignKeys = TRUE
  /\ embeddingLoaded = TRUE
  /\ recallLoaded = TRUE
  /\ IdlePipeline
  /\ budget = [creates |-> 0, updates |-> 0, deletes |-> 0, faults |-> MaxFaults]
  /\ blobKind = "Uint8Array"
  /\ request \in EndSessionRequests
  /\ outcome = NoResult
  /\ app = AppRunning

NextEndSession ==
  \/ handleEndSession
  \/ markNoteAsShown

SpecEndSession == InitEndSession /\ [][NextEndSession]_vars

(***************************************************************************)
(* C28: markNotesAsShown issues the UPDATE of lastShownInReminisce for     *)
(* every id of its list, once each and in the order of the list; an UPDATE *)
(* that fails is not issued again and does not keep the later ones from    *)
(* being issued, every note whose UPDATE succeeded carries the new time,   *)
(* and the call resolves.                                                  *)
(***************************************************************************)
C28EveryNoteAttemptedOnce ==
  (request.op = "handleEndSession" /\ outcome # NoResult)
    => /\ outcome.attempts = SubSeq(request.noteIds, 1, outcome.index)
       /\ ~outcome.rejected
       /\ outcome.pc = "back"
            => /\ outcome.attempts = request.noteIds
               /\ \A k \in DOMAIN request.noteIds :
                    (k \notin outcome.failed /\ request.noteIds[k] \in DOMAIN notes)
                      => notes[request.noteIds[k]].lastShownInReminisce = request.now

\* three notes, the UPDATE of the second failed: the third has the new time,
\* the second has not, and the session screen was left
C28Witness ==
  /\ request.op = "handleEndSession"
  /\ outcome # NoResult /\ outcome.pc = "back" /\ ~outcome.rejected
  /\ Len(request.noteIds) = 3
  /\ request.noteIds \in [1..3 -> DOMAIN notes]
  /\ outcome.failed = {2}
  /\ outcome.attempts = request.noteIds
  /\ notes[request.noteIds[1]].lastShownInReminisce = request.now
  /\ notes[request.noteIds[2]].lastShownInReminisce # request.now
  /\ notes[request.noteIds[3]].lastShownInReminisce = request.now


\* the timers of a kind among the armed ones
TimersOf(queue, kind) == {k \in DOMAIN queue : queue[k] = kind}

(***************************************************************************)
(* C31: a schedule call made while the timer of its scheduler is armed     *)
(* adds the id to the pending set and leaves the armed timers as they are, *)
(* in number and in firing order (only the other scheduler may arm its     *)
(* own timer behind them); each scheduler has at most one timer armed.     *)
(***************************************************************************)
C31ArmedTimerIsLeftAlone ==
  [][/\ Cardinality(TimersOf(timers', "embedding")) <= 1
     /\ Cardinality(TimersOf(timers', "script")) <= 1
     /\ (saves' # saves /\ updateTimer)
          => /\ \E n \in NoteIds : /\ pendingNotes' = pendingNotes \cup {n}
                                   /\ pendingCover'[n] = pendingCover[n] \cup {saves'}
             /\ updateTimer'
             /\ timers' \in {timers, Append(timers, "script")}
     /\ (saves' # saves /\ scriptUpdateTimer)
          => /\ \E n \in NoteIds : /\ pendingScriptNotes' = pendingScriptNotes \cup {n}
                                   /\ pendingScriptCover'[n] = pendingScriptCover[n] \cup {saves'}
             /\ scriptUpdateTimer'
             /\ timers' \in {timers, Append(timers, "embedding")}]_vars

\* both schedulers were called again while armed, the script timer due first
C31Witness ==
  /\ timers = <<"script", "embedding">>
  /\ \E n \in NoteIds : /\ Cardinality(pendingCover[n]) >= 2
                        /\ Cardinality(pendingScriptCover[n]) >= 3


(***************************************************************************)
(* Two settled notes are saved and one of them may be deleted, so that a   *)
(* timer can find both ids pending and one of the notes gone.              *)
(***************************************************************************)
BatchTitle(n) == <<64 + n>>

InitBatch ==
  /\ notes = [n \in NoteIds |->
                [title |-> BatchTitle(n), content |-> InputPlain.content,
                 tags |-> InputPlain.tags,
                 recallScript |-> ScriptOf(BatchTitle(n), InputPlain.content)]]
  /\ images = <<>>
  /\ note_embeddings =
       [n \in NoteIds |->
          TextRow(combineNoteText(BatchTitle(n), InputPlain.content, InputPlain.tags))]
  /\ image_embeddings = <<>>
  /\ nextNoteId = MaxNotes + 2
  /\ nextImageId = 1
  /\ foreignKeys \in BOOLEAN
  /\ embeddingLoaded = TRUE
  /\ recallLoaded = TRUE
  /\ IdlePipeline
  /\ NoForeground
  /\ budget = [creates |-> 0, updates |-> MaxEdits, deletes |-> MaxDeletes, faults |-> 0]

NextBatch ==
  \/ \E n \in NoteIds : UpdateNote(n, InputTagged)
  \/ \E n \in NoteIds : DeleteNote(n)
  \/ EmbeddingTimer
  \/ ScriptTimer
  \/ \E i \in 1..Len(embPasses) : EmbBatchLoaded(i)
  \/ \E i \in 1..Len(embPasses) : EmbNoteLoaded(i)
  \/ \E i \in 1..Len(embPasses) : TextNoteLoaded(i)
  \/ \E i \in 1..Len(embPasses) : TextSelected(i)
  \/ \E i \in 1..Len(embPasses) : TextEmbedded(i)
  \/ \E i \in 1..Len(embPasses) : TextWritten(i)
  \/ \E i \in 1..Len(embPasses) : TextCatch(i)
  \/ \E i \in 1..Len(scriptPasses) : ScriptBatchLoaded(i)
  \/ \E i \in 1..Len(scriptPasses) : ScriptNoteLoaded(i)
  \/ \E i \in 1..Len(scriptPasses) : ScriptCompleted(i)
  \/ \E i \in 1..Len(scriptPasses) : ScriptWritten(i)

SpecBatch == InitBatch /\ [][NextBatch]_vars


\* the notes of the passes a step has appended
Appended(before, after) == {after[i].note : i \in (Len(before) + 1)..Len(after)}

(***************************************************************************)
(* C32: after every step a scheduler's timer is armed exactly when its     *)
(* pending set is not empty, and the step in which the timer fires takes   *)
(* the whole pending set as its batch (one pass per pending id), empties   *)
(* the pending set and disarms the timer; passes are started by no other   *)
(* step of these runs.                                                     *)
(***************************************************************************)
C32FiringDrainsAndDisarms ==
  [][/\ updateTimer' <=> pendingNotes' # {}
     /\ updateTimer' <=> Armed("embedding")'
     /\ scriptUpdateTimer' <=> pendingScriptNotes' # {}
     /\ scriptUpdateTimer' <=> Armed("script")'
     /\ (Len(embPasses') > Len(embPasses)
           \/ (timers # <<>> /\ Head(timers) = "embedding" /\ timers' = Tail(timers)))
          => /\ timers # <<>> /\ Head(timers) = "embedding" /\ timers' = Tail(timers)
             /\ Appended(embPasses, embPasses') = pendingNotes
             /\ Len(embPasses') = Len(embPasses) + Cardinality(pendingNotes)
             /\ pendingNotes' = {}
             /\ ~updateTimer'
     /\ (Len(scriptPasses') > Len(scriptPasses)
           \/ (timers # <<>> /\ Head(timers) = "script" /\ timers' = Tail(timers)))
          => /\ timers # <<>> /\ Head(timers) = "script" /\ timers' = Tail(timers)
             /\ Appended(scriptPasses, scriptPasses') = pendingScriptNotes
             /\ Len(scriptPasses') = Len(scriptPasses) + Cardinality(pendingScriptNotes)
             /\ pendingScriptNotes' = {}
             /\ ~scriptUpdateTimer'
     /\ Len(timers') < Len(timers) => timers' = Tail(timers)]_vars

\* both timers have fired on a pending set of two ids and every id got its
\* pass; nothing is pending and nothing is armed
C32Witness ==
  /\ Cardinality({embPasses[i].note : i \in {j \in DOMAIN embPasses :
                                               embPasses[j].pc = "batchGetNote"}}) = 2
  /\ Cardinality({scriptPasses[i].note : i \in {j \in DOMAIN scriptPasses :
                                                  scriptPasses[j].pc = "batchGetNote"}}) = 2
  /\ pendingNotes = {} /\ pendingScriptNotes = {}
  /\ ~updateTimer /\ ~scriptUpdateTimer /\ timers = <<>>


\* the passes of a note that wait for the timer callback's getNoteById
Loading(passes, n) ==
  {i \in DOMAIN passes : passes[i].note = n /\ passes[i].pc = "batchGetNote"}

\* the passes of a note that are past it
Running(passes, n) ==
  {i \in DOMAIN passes : passes[i].note = n /\ passes[i].pc # "batchGetNote"}

(***************************************************************************)
(* C33: a drained id whose note is gone is skipped.  While a note does not *)
(* exist, none of its drained ids gets past the callback's getNoteById: no *)
(* embedding or script pass of the note starts, so no embedding() or       *)
(* completion() call and no write is made for it; the step that drops the  *)
(* id writes nothing and leaves the passes of the other ids as they are.   *)
(***************************************************************************)
C33DeletedNoteIsSkipped ==
  [][\A n \in NoteIds : n \notin DOMAIN notes =>
       /\ Cardinality(Running(embPasses', n)) <= Cardinality(Running(embPasses, n))
       /\ Cardinality(Running(scriptPasses', n)) <= Cardinality(Running(scriptPasses, n))
       /\ Cardinality(Loading(embPasses', n)) < Cardinality(Loading(embPasses, n))
            => /\ \E i \in Loading(embPasses, n) : embPasses' = RemoveAt(embPasses, i)
               /\ UNCHANGED <<tables, scriptPasses>>
       /\ Cardinality(Loading(scriptPasses', n)) < Cardinality(Loading(scriptPasses, n))
            => /\ \E i \in Loading(scriptPasses, n) : scriptPasses' = RemoveAt(scriptPasses, i)
               /\ UNCHANGED <<tables, embPasses>>]_vars

\* both notes were saved and the first deleted; the embedding timer fired and
\* its passes are over: the row of the second note is that of its new text,
\* the row left behind by the first is the old one; the script timer is due
C33Witness ==
  /\ DOMAIN notes = {2}
  /\ pendingScriptNotes = {1, 2}
  /\ pendingNotes = {} /\ embPasses = <<>> /\ drained = {1, 2}
  /\ note_embeddings[2] =
       TextRow(combineNoteText(InputTagged.title, InputTagged.content, InputTagged.tags))
  /\ 1 \in DOMAIN note_embeddings
  /\ note_embeddings[1] =
       TextRow(combineNoteText(BatchTitle(1), InputPlain.content, InputPlain.tags))


(***************************************************************************)
(* C34: when nothing fails (the embedding capability and the store do what *)
(* they are asked in every pass), the note_embeddings row of a note is     *)
(* completed once the passes of the note are over, also when two of them   *)
(* overlapped: no pass marks failed what a sibling pass has stored.        *)
(***************************************************************************)
C34OverlapEndsCompleted ==
  \A n \in DOMAIN notes :
    (budget.faults = MaxFaults /\ embeddingLoaded /\ PassesOf(embPasses, n) = {}
       /\ n \in DOMAIN note_embeddings)
      => note_embeddings[n].status = "completed"


(***************************************************************************)
(* Edits of a settled note during which something may fail: the text is    *)
(* changed and changed back.                                               *)
(***************************************************************************)
InitRevert ==
  /\ foreignKeys \in BOOLEAN
  /\ Settled
  /\ NoForeground
  /\ budget = [creates |-> 0, updates |-> MaxEdits, deletes |-> 0, faults |-> MaxFaults]

NextRevert ==
  \/ \E n \in NoteIds, input \in TextInputs : UpdateNote(n, input)
  \/ EmbeddingTimer
  \/ ScriptTimer
  \/ \E i \in 1..Len(embPasses) : EmbBatchLoaded(i)
  \/ \E i \in 1..Len(embPasses) : EmbNoteLoaded(i)
  \/ \E i \in 1..Len(embPasses) : TextNoteLoaded(i)
  \/ \E i \in 1..Len(embPasses) : TextSelected(i)
  \/ \E i \in 1..Len(embPasses) : TextEmbedded(i)
  \/ \E i \in 1..Len(embPasses) : TextWritten(i)
  \/ \E i \in 1..Len(embPasses) : TextCatch(i)
  \/ \E i \in 1..Len(scriptPasses) : ScriptBatchLoaded(i)
  \/ \E i \in 1..Len(scriptPasses) : ScriptNoteLoaded(i)
  \/ \E i \in 1..Len(scriptPasses) : ScriptCompleted(i)
  \/ \E i \in 1..Len(scriptPasses) : ScriptWritten(i)

SpecRevert == InitRevert /\ [][NextRevert]_vars

(***************************************************************************)
(* C35: when generateNoteTextEmbedding returns because the stored textHash *)
(* is the hash of the note's text, the stored row has status completed.    *)
(***************************************************************************)
C35SkippedRowIsCompleted ==
  [][\A i \in DOMAIN embPasses :
       LET p == embPasses[i]
       IN  (/\ p.pc = "tasks"
            /\ p.text.pc = "select"
            /\ SameHash(note_embeddings, p.note, "textHash", p.text.text)
            /\ TextSteps(i)
            /\ budget'.faults = budget.faults)
           => note_embeddings'[p.note].status = "completed"]_vars


(***************************************************************************)
(* Saves of a settled note with one image: the text may change, the        *)
(* caption of the image never does.                                        *)
(***************************************************************************)
KeptCaption == <<99>>

CaptionInputs == {[input EXCEPT !.images = <<KeptCaption>>] : input \in TextInputs}

InitCaption ==
  /\ foreignKeys \in BOOLEAN
  /\ notes = (1 :> [title |-> InputPlain.title, content |-> InputPlain.content,
                    tags |-> InputPlain.tags,
                    recallScript |-> ScriptOf(InputPlain.title, InputPlain.content)])
  /\ images = (1 :> [noteId |-> 1, description |-> KeptCaption])
  /\ note_embeddings =
       (1 :> TextRow(combineNoteText(InputPlain.title, InputPlain.content,
                                     InputPlain.tags)))
  /\ image_embeddings = (1 :> ImageRow(KeptCaption))
  /\ nextNoteId = 2
  /\ nextImageId = 2
  /\ embeddingLoaded = TRUE
  /\ recallLoaded = TRUE
  /\ IdlePipeline
  /\ NoForeground
  /\ budget = [creates |-> 0, updates |-> MaxEdits, deletes |-> 0, faults |-> 0]

NextCaption ==
  \/ \E n \in NoteIds, input \in CaptionInputs : UpdateNote(n, input)
  \/ EmbeddingTimer
  \/ ScriptTimer
  \/ \E i \in 1..Len(embPasses) : EmbBatchLoaded(i)
  \/ \E i \in 1..Len(embPasses) : EmbNoteLoaded(i)
  \/ \E i \in 1..Len(embPasses) : TextNoteLoaded(i)
  \/ \E i \in 1..Len(embPasses) : TextSelected(i)
  \/ \E i \in 1..Len(embPasses) : TextEmbedded(i)
  \/ \E i \in 1..Len(embPasses) : TextWritten(i)
  \/ \E i \in 1..Len(embPasses) : \E k \in 1..Len(embPasses[i].imgs) : ImageSelected(i, k)
  \/ \E i \in 1..Len(embPasses) : \E k \in 1..Len(embPasses[i].imgs) : ImageEmbedded(i, k)
  \/ \E i \in 1..Len(embPasses) : \E k \in 1..Len(embPasses[i].imgs) : ImageWritten(i, k)
  \/ \E i \in 1..Len(embPasses) : \E k \in 1..Len(embPasses[i].imgs) : ImageCatch(i, k)
  \/ \E i \in 1..Len(scriptPasses) : ScriptBatchLoaded(i)
  \/ \E i \in 1..Len(scriptPasses) : ScriptNoteLoaded(i)
  \/ \E i \in 1..Len(scriptPasses) : ScriptCompleted(i)
  \/ \E i \in 1..Len(scriptPasses) : ScriptWritten(i)

SpecCaption == InitCaption /\ [][NextCaption]_vars

(***************************************************************************)
(* C36: after a save that leaves the caption of an image as it was, the    *)
(* pass makes no embedding() call for the image: no task of an image with  *)
(* the kept caption waits for embedding() or writes a row.                 *)
(***************************************************************************)
C36KeptCaptionIsNotEmbeddedAgain ==
  \A i \in DOMAIN embPasses : \A k \in DOMAIN embPasses[i].imgs :
    embPasses[i].imgs[k].description = Trim(KeptCaption)
      => embPasses[i].imgs[k].pc \notin {"embedding", "write"}


\* the rows read that belong to a note of the store
Live(rows) == SelectSeq(rows, LAMBDA row : row.noteId \in DOMAIN notes)

(***************************************************************************)
(* C37: retrieveRelevantNotes returns no note that had been deleted when   *)
(* the call started, and the embedding rows a deleted note left behind     *)
(* keep no note of the store out of the result: every note that is         *)
(* selected when only the rows of the notes of the store are read is       *)
(* selected by the call.                                                   *)
(***************************************************************************)
C37DeletedNotesDoNotCount ==
  [][/\ (outcome.pc = "hydrate" /\ outcome'.pc = "done")
          => \A k \in DOMAIN outcome'.notes : outcome'.notes[k].noteId \in DOMAIN notes
     /\ (outcome = NoResult /\ outcome'.pc = "hydrate")
          => LET expected == FinalMatches(Live(outcome'.noteRows), Live(outcome'.imageRows),
                                          request.queryEmbedding, request.topK)
             IN  \A j \in DOMAIN expected : \E k \in DOMAIN outcome'.matches :
                   outcome'.matches[k].noteId = expected[j].noteId]_vars


(***************************************************************************)
(* The reducer of the reminisce screen.  The session holds the notes that  *)
(* INIT_SUCCESS brought; the handlers and the auto-advance timer dispatch  *)
(* NEXT_NOTE with totalNotes = notes.length.  The state keeps the last     *)
(* action dispatched.                                                      *)
(***************************************************************************)
initialReminisceState ==
  [pc |-> "reducer", notes |-> <<>>, currentIndex |-> 0, isPlaying |-> FALSE,
   isPaused |-> FALSE, sessionComplete |-> FALSE, isLoading |-> TRUE, hasError |-> FALSE,
   last |-> "none"]

\* a reducer whose NEXT_NOTE always moves on
reminisceReducerUnbounded(state, action) ==
  CASE action.type = "INIT_SUCCESS" ->
         [state EXCEPT !.notes = action.notes, !.isLoading = FALSE, !.last = action.type]
    [] action.type = "NEXT_NOTE" ->
         [state EXCEPT !.currentIndex = state.currentIndex + 1,
                       !.sessionComplete = @ \/ (state.currentIndex + 1 >= action.totalNotes),
                       !.isPlaying = FALSE, !.isPaused = FALSE, !.last = action.type]
    [] action.type = "PREV_NOTE" ->
         [state EXCEPT !.currentIndex = IF @ - 1 > 0 THEN @ - 1 ELSE 0,
                       !.isPlaying = FALSE, !.isPaused = FALSE, !.last = action.type]
    [] action.type = "SET_PLAYING" ->
         [state EXCEPT !.isPlaying = action.value, !.last = action.type]
    [] action.type = "SET_PAUSED" ->
         [state EXCEPT !.isPaused = action.value, !.last = action.type]
    [] action.type = "COMPLETE_SESSION" ->
         [state EXCEPT !.sessionComplete = TRUE, !.isPlaying = FALSE, !.last = action.type]
    [] OTHER -> state

\* reminisceReducer(state, action)
reminisceReducer(state, action) ==
  CASE action.type = "INIT_SUCCESS" ->
         [state EXCEPT !.notes = action.notes, !.isLoading = FALSE, !.last = action.type]
    [] action.type = "NEXT_NOTE" ->
         LET nextIndex == state.currentIndex + 1
         IN  IF nextIndex >= action.totalNotes
             THEN [state EXCEPT !.sessionComplete = TRUE, !.isPlaying = FALSE,
                                !.isPaused = FALSE, !.last = action.type]
             ELSE [state EXCEPT !.currentIndex = nextIndex, !.isPlaying = FALSE,
                                !.isPaused = FALSE, !.last = action.type]
    [] action.type = "PREV_NOTE" ->
         [state EXCEPT !.currentIndex = IF @ - 1 > 0 THEN @ - 1 ELSE 0,
                       !.isPlaying = FALSE, !.isPaused = FALSE, !.last = action.type]
    [] action.type = "SET_PLAYING" ->
         [state EXCEPT !.isPlaying = action.value, !.last = action.type]
    [] action.type = "SET_PAUSED" ->
         [state EXCEPT !.isPaused = action.value, !.last = action.type]
    [] action.type = "COMPLETE_SESSION" ->
         [state EXCEPT !.sessionComplete = TRUE, !.isPlaying = FALSE, !.last = action.type]
    [] OTHER -> state

sessionFrame == <<tables, models, embeddingQueue, scriptQueue, timers, embPasses,
                  scriptPasses, budget, saves, lateSaves, failedTasks, lastReturn,
                  lastFailed, lastCall, unhandled, blobKind, request, app>>

\* the auto-advance timer of playSpeech, and handleNext before the last note
NextNote ==
  /\ request.op = "reminisce"
  /\ outcome' = reminisceReducer(outcome, [type |-> "NEXT_NOTE",
                                            totalNotes |-> Len(outcome.notes)])
  /\ UNCHANGED sessionFrame

\* handlePrevious
PrevNote ==
  /\ request.op = "reminisce"
  /\ outcome' = reminisceReducer(outcome, [type |-> "PREV_NOTE"])
  /\ UNCHANGED sessionFrame

\* playSpeech and its onStart, onDone and onError; handleTogglePause
SetPlaying ==
  /\ request.op = "reminisce"
  /\ \E value \in BOOLEAN :
       outcome' = reminisceReducer(outcome, [type |-> "SET_PLAYING", value |-> value])
  /\ UNCHANGED sessionFrame

\* playSpeech and handleTogglePause
SetPaused ==
  /\ request.op = "reminisce"
  /\ \E value \in BOOLEAN :
       outcome' = reminisceReducer(outcome, [type |-> "SET_PAUSED", value |-> value])
  /\ UNCHANGED sessionFrame

\* handleNext on the last note
CompleteSession ==
  /\ request.op = "reminisce"
  /\ outcome' = reminisceReducer(outcome, [type |-> "COMPLETE_SESSION"])
  /\ UNCHANGED sessionFrame

InitSession ==
  /\ notes = [n \in 1..SessionSize |-> ReminisceNote(n, <<115>>, NotShown)]
  /\ nextNoteId = SessionSize + 1
  /\ images = <<>>
  /\ note_embeddings = <<>>
  /\ image_embeddings = <<>>
  /\ nextImageId = 1
  /\ foreignKeys = TRUE
  /\ embeddingLoaded = TRUE
  /\ recallLoaded = TRUE
  /\ IdlePipeline
  /\ budget = [creates |-> 0, updates |-> 0, deletes |-> 0, faults |-> 0]
  /\ blobKind = "Uint8Array"
  /\ request = [op |-> "reminisce"]
  /\ \E n \in 1..SessionSize :
       outcome = reminisceReducer(initialReminisceState,
                                  [type |-> "INIT_SUCCESS", notes |-> [k \in 1..n |-> k]])
  /\ app = AppRunning

NextSession ==
  \/ NextNote
  \/ PrevNote
  \/ SetPlaying
  \/ SetPaused
  \/ CompleteSession

SpecSession == InitSession /\ [][NextSession]_vars

(***************************************************************************)
(* C38: in a session of n >= 1 notes, 0 <= currentIndex <= n - 1 after     *)
(* every action; NEXT_NOTE on the last note sets sessionComplete and       *)
(* leaves currentIndex as it is; sessionComplete, once true, stays true.   *)
(***************************************************************************)
C38IndexStaysInSession ==
  [][/\ 0 <= outcome'.currentIndex
     /\ outcome'.currentIndex <= Len(outcome'.notes) - 1
     /\ (outcome'.last = "NEXT_NOTE" /\ outcome.currentIndex = Len(outcome.notes) - 1)
          => /\ outcome'.sessionComplete
             /\ outcome'.currentIndex = outcome.currentIndex
     /\ outcome.sessionComplete => outcome'.sessionComplete]_vars

\* the auto-advance timer fired on the last of five notes
C38Witness ==
  /\ request.op = "reminisce"
  /\ outcome.last = "NEXT_NOTE"
  /\ Len(outcome.notes) = SessionSize
  /\ outcome.currentIndex = SessionSize - 1
  /\ outcome.sessionComplete


(***************************************************************************)
(* The quiz screen.  generateQuestion is a function of the render that     *)
(* created it: its guard reads the isGenerating and the questions of that  *)
(* render.  The dispatches of one synchronous segment are rendered         *)
(* together, and the look-ahead effect runs after the render.  The screen  *)
(* keeps the completion calls in flight, the 100 ms timers armed and, per  *)
(* question index, the number of completion calls issued.                  *)
(***************************************************************************)
TOTAL_QUESTIONS == 5

MaxQuizNotes == 1

\* completion calls followed per question index
MaxIssued == 2

\* the calls issued stay within the number followed
Followed(screen) == \A index \in 0..(TOTAL_QUESTIONS - 1) : screen.issued[index] <= MaxIssued

\* the state of the reducer, with the calls and timers of the screen
initialQuizState ==
  [pc |-> "quiz", questions |-> {}, selectedNotes |-> 0, currentQuestionIndex |-> 0,
   showResult |-> FALSE, isGenerating |-> FALSE, hasError |-> FALSE, initialized |-> FALSE,
   inFlight |-> <<>>, chained |-> <<>>,
   issued |-> [index \in 0..(TOTAL_QUESTIONS - 1) |-> 0]]

\* what a function created by the render of screen reads when it runs later
RenderOf(screen) == [isGenerating |-> screen.isGenerating, questions |-> screen.questions]

\* generateQuestion(index, notes, assignments) of the render seen, up to its
\* await of completion()
generateQuestion(screen, index, seen) ==
  IF seen.isGenerating \/ index \in seen.questions
  THEN screen
  ELSE [screen EXCEPT !.isGenerating = TRUE,
                      !.inFlight = Append(@, [index |-> index, seen |-> seen]),
                      !.issued[index] = @ + 1]

\* the effect "Trigger next question generation if needed", run after a
\* render
lookAhead(screen) ==
  IF ~screen.initialized \/ screen.selectedNotes = 0
  THEN screen
  ELSE LET nextIndex == screen.currentQuestionIndex + 1
       IN  IF /\ nextIndex < TOTAL_QUESTIONS
              /\ nextIndex \notin screen.questions
              /\ ~screen.isGenerating
           THEN generateQuestion(screen, nextIndex, RenderOf(screen))
           ELSE screen

quizFrame == <<tables, models, embeddingQueue, scriptQueue, timers, embPasses,
               scriptPasses, saves, lateSaves, failedTasks, lastReturn, lastFailed,
               lastCall, unhandled, blobKind, request, app>>

\* initializeQuiz once getAllNotes has returned: INIT_ERROR without notes,
\* else INIT_SUCCESS and generateQuestion(0, ...) of the first render
initializeQuiz ==
  /\ request.op = "quiz"
  /\ outcome = NoResult
  /\ outcome' =
       IF request.noteCount = 0
       THEN [initialQuizState EXCEPT !.hasError = TRUE]
       ELSE LET noteCount == IF request.noteCount < TOTAL_QUESTIONS THEN request.noteCount
                             ELSE TOTAL_QUESTIONS
                started == [initialQuizState EXCEPT !.selectedNotes = noteCount,
                                                    !.initialized = TRUE]
            IN  lookAhead(generateQuestion(started, 0, RenderOf(initialQuizState)))
  /\ UNCHANGED <<budget, quizFrame>>

\* the completion() of a generateQuestion returns: SET_QUESTION and the
\* chained timer when the answer parses, SET_GENERATING false in any case
QuestionCompleted(i) ==
  /\ request.op = "quiz"
  /\ outcome # NoResult
  /\ i \in DOMAIN outcome.inFlight
  /\ \E answer \in (IF budget.faults > 0 THEN {"parsed", "unparsed", "throws"}
                    ELSE {"parsed"}) :
       LET call == outcome.inFlight[i]
           left == [outcome EXCEPT !.inFlight = RemoveAt(@, i)]
           set  == IF answer = "parsed"
                   THEN [left EXCEPT !.questions = @ \cup {call.index},
                                     !.chained = IF call.index < TOTAL_QUESTIONS - 1
                                                 THEN Append(@, [index |-> call.index + 1,
                                                                 seen |-> call.seen])
                                                 ELSE @]
                   ELSE left
       IN  /\ Spend(answer # "parsed")
           /\ outcome' = lookAhead([set EXCEPT !.isGenerating = FALSE])
  /\ Followed(outcome')
  /\ UNCHANGED quizFrame

\* setTimeout(() => generateQuestion(index + 1, notes, assignments), 100)
\* fires: the function of the render that armed it runs
ChainedTimer ==
  /\ request.op = "quiz"
  /\ outcome # NoResult
  /\ outcome.chained # <<>>
  /\ LET timer == Head(outcome.chained)
     IN  outcome' = lookAhead(generateQuestion([outcome EXCEPT !.chained = Tail(@)],
                                               timer.index, timer.seen))
  /\ Followed(outcome')
  /\ UNCHANGED <<budget, quizFrame>>

\* handleAnswerSelect
AnswerSelect ==
  /\ request.op = "quiz"
  /\ outcome # NoResult
  /\ ~outcome.hasError
  /\ ~outcome.showResult
  /\ outcome.currentQuestionIndex \in outcome.questions
  /\ outcome' = lookAhead([outcome EXCEPT !.showResult = TRUE])
  /\ UNCHANGED <<budget, quizFrame>>

\* handleNextQuestion, from the button shown with the result
NextQuestion ==
  /\ request.op = "quiz"
  /\ outcome # NoResult
  /\ outcome.showResult
  /\ outcome.currentQuestionIndex < TOTAL_QUESTIONS - 1
  /\ outcome' = lookAhead([outcome EXCEPT !.currentQuestionIndex = @ + 1,
                                          !.showResult = FALSE])
  /\ Followed(outcome')
  /\ UNCHANGED <<budget, quizFrame>>

InitQuiz ==
  /\ \E count \in 0..MaxQuizNotes :
       /\ notes = [n \in 1..count |-> ReminisceNote(n, <<115>>, NotShown)]
       /\ nextNoteId = count + 1
       /\ request = [op |-> "quiz", noteCount |-> count]
  /\ images = <<>>
  /\ note_embeddings = <<>>
  /\ image_embeddings = <<>>
  /\ nextImageId = 1
  /\ foreignKeys = TRUE
  /\ embeddingLoaded = TRUE
  /\ recallLoaded = TRUE
  /\ IdlePipeline
  /\ budget = [creates |-> 0, updates |-> 0, deletes |-> 0, faults |-> MaxFaults]
  /\ blobKind = "Uint8Array"
  /\ outcome = NoResult
  /\ app = AppRunning

NextQuiz ==
  \/ initializeQuiz
  \/ \E i \in 1..TOTAL_QUESTIONS : QuestionCompleted(i)
  \/ ChainedTimer
  \/ AnswerSelect
  \/ NextQuestion

SpecQuiz == InitQuiz /\ [][NextQuiz]_vars

(***************************************************************************)
(* C39: on the quiz screen at most one completion call for a question is   *)
(* in flight at a time, and for each question index at most one completion *)
(* call is ever issued, also when the chained timer and the look-ahead     *)
(* effect ask for the same index.  Stated for the runs in which every      *)
(* completion returned an answer that parses.                              *)
(***************************************************************************)
C39OneGenerationPerQuestion ==
  (request.op = "quiz" /\ outcome # NoResult /\ budget.faults = MaxFaults)
    => /\ Len(outcome.inFlight) <= 1
       /\ \A index \in 0..(TOTAL_QUESTIONS - 1) : outcome.issued[index] <= 1


(***************************************************************************)
(* database/index.ts: the module variable dbInstance, initializeDatabase   *)
(* with the four statements migrateDbIfNeeded awaits, getDatabaseInstance, *)
(* and the start of a new process over the same database file.  The file   *)
(* keeps user_version and whether the tables exist; the calls made are     *)
(* kept in a log.                                                          *)
(***************************************************************************)
MaxDbCalls == 4

DATABASE_VERSION == 1

\* the file memoriq.db before the first start, no call made
NoDatabase ==
  [pc |-> "database", migration |-> "idle", user_version |-> 0, schema |-> FALSE, log |-> <<>>]

Logged(call, result, stage) == [call |-> call, result |-> result, stage |-> stage]

databaseFrame == <<tables, models, embeddingQueue, scriptQueue, timers, embPasses,
                   scriptPasses, saves, lateSaves, failedTasks, lastReturn, lastFailed,
                   lastCall, unhandled, blobKind, request>>

\* initializeDatabase() up to its first await: the handle installed is
\* returned, or open() throws, or dbInstance is assigned and
\* migrateDbIfNeeded begins
initializeDatabase ==
  /\ request.op = "database"
  /\ Len(outcome.log) < MaxDbCalls
  /\ IF app.dbInstance # "none"
     THEN /\ outcome' = [outcome EXCEPT
                           !.log = Append(@, Logged("initializeDatabase", "handle", "early"))]
          /\ UNCHANGED <<app, budget>>
     ELSE \E fail \in FaultChoices :
            /\ Spend(fail)
            /\ IF fail
               THEN /\ outcome' = [outcome EXCEPT
                                     !.log = Append(@, Logged("initializeDatabase",
                                                              "throws", "open"))]
                    /\ UNCHANGED app
               ELSE /\ app' = [app EXCEPT !.dbInstance = "opened"]
                    /\ outcome' = [outcome EXCEPT !.migration = "version"]
  /\ UNCHANGED databaseFrame

\* a statement of migrateDbIfNeeded returns or throws; initializeDatabase
\* rethrows what it catches and returns dbInstance after the last one
migrateDbIfNeeded ==
  /\ request.op = "database"
  /\ outcome.migration # "idle"
  /\ \E fail \in FaultChoices :
       /\ Spend(fail)
       /\ IF fail
          THEN /\ outcome' = [outcome EXCEPT
                                !.migration = "idle",
                                !.log = Append(@, Logged("initializeDatabase",
                                                         "throws", "migrate"))]
               /\ UNCHANGED app
          ELSE LET done == [outcome EXCEPT
                              !.migration = "idle",
                              !.log = Append(@, Logged("initializeDatabase",
                                                       "handle", "migrate"))]
               IN  CASE outcome.migration = "version" ->
                          IF outcome.user_version >= DATABASE_VERSION
                          THEN /\ outcome' = done
                               /\ app' = [app EXCEPT !.dbInstance = "migrated"]
                          ELSE /\ outcome' = [outcome EXCEPT !.migration = "journal"]
                               /\ UNCHANGED app
                    [] outcome.migration = "journal" ->
                          /\ outcome' = [outcome EXCEPT !.migration = "create"]
                          /\ UNCHANGED app
                    [] outcome.migration = "create" ->
                          /\ outcome' = [outcome EXCEPT !.migration = "setVersion",
                                                        !.schema = TRUE]
                          /\ UNCHANGED app
                    [] OTHER ->
                          /\ outcome' = [done EXCEPT !.user_version = DATABASE_VERSION]
                          /\ app' = [app EXCEPT !.dbInstance = "migrated"]
  /\ UNCHANGED databaseFrame

\* getDatabaseInstance()
getDatabaseInstance ==
  /\ request.op = "database"
  /\ Len(outcome.log) < MaxDbCalls
  /\ outcome' = [outcome EXCEPT
                   !.log = Append(@, Logged("getDatabaseInstance",
                                            IF app.dbInstance = "none" THEN "throws"
                                            ELSE "handle", "read"))]
  /\ UNCHANGED <<app, budget, databaseFrame>>

\* the process ends and the application is started again: the module is
\* loaded anew with dbInstance null, the file is as it was left
ProcessStart ==
  /\ request.op = "database"
  /\ Len(outcome.log) < MaxDbCalls
  /\ outcome.log # <<>>
  /\ app' = [app EXCEPT !.dbInstance = "none"]
  /\ outcome' = [outcome EXCEPT !.migration = "idle",
                                !.log = Append(@, Logged("start", "none", "start"))]
  /\ UNCHANGED <<budget, databaseFrame>>

InitDatabase ==
  /\ notes = <<>>
  /\ images = <<>>
  /\ note_embeddings = <<>>
  /\ image_embeddings = <<>>
  /\ nextNoteId = 1
  /\ nextImageId = 1
  /\ foreignKeys \in BOOLEAN
  /\ embeddingLoaded = FALSE
  /\ recallLoaded = FALSE
  /\ IdlePipeline
  /\ budget = [creates |-> 0, updates |-> 0, deletes |-> 0, faults |-> MaxFaults]
  /\ blobKind = "Uint8Array"
  /\ request = [op |-> "database"]
  /\ outcome = NoDatabase
  /\ app = initialState

NextDatabase ==
  \/ initializeDatabase
  \/ migrateDbIfNeeded
  \/ getDatabaseInstance
  \/ ProcessStart

SpecDatabase == InitDatabase /\ [][NextDatabase]_vars

\* the calls after call k of the log, up to the next start of the process
SameProcess(log, k) ==
  {j \in DOMAIN log : j > k /\ \A m \in k..j : log[m].call # "start"}

(***************************************************************************)
(* C40: when initializeDatabase has failed during the migration, no handle *)
(* stays installed: in the same process every later getDatabaseInstance    *)
(* throws, and every later initializeDatabase runs the migration and does  *)
(* not return the handle installed before.                                 *)
(***************************************************************************)
C40FailedMigrationLeavesNoHandle ==
  request.op = "database"
    => \A k \in DOMAIN outcome.log :
         (outcome.log[k] = Logged("initializeDatabase", "throws", "migrate"))
           => \A j \in SameProcess(outcome.log, k) :
                /\ outcome.log[j].call = "getDatabaseInstance"
                     => outcome.log[j].result = "throws"
                /\ outcome.log[j].call = "initializeDatabase"
                     => outcome.log[j].stage # "early"

=============================================================================
